---- MODULE Spec2Model ----
(***************************************************************************)
(* A model of the distributed query executor of src/executor.go.          *)
(*                                                                         *)
(* One executor (the node e.Host) is followed step by step through        *)
(* Execute: the serial loop over the calls of a query, mapReduce with its *)
(* per-node and per-slice tasks, the replica loop of SetBit/ClearBit and  *)
(* the attribute fan-out.  The peers it talks to through exec run the     *)
(* same code with the options the request carries; what a peer answers is *)
(* computed from that peer's own data.                                    *)
(***************************************************************************)
EXTENDS Integers, Sequences, FiniteSets, TLC

(***************************************************************************)
(* Cluster (external collaborator): three nodes, every slice held by two  *)
(* consecutive nodes, the first being the primary owner.                  *)
(***************************************************************************)
NumNodes == 3
ReplicaN == 2
Nodes == 0 .. (NumNodes - 1)

\* Width of a slice in columns (1 << 20 in the program, scaled down here).
SliceWidth == 2

\* Cluster.FragmentNodes(index, slice): the ordered replica set of a slice.
FragmentNodes(slice) == [i \in 1 .. ReplicaN |-> (slice + i - 1) % NumNodes]

\* The set of nodes of a replica sequence.
NodeSet(seq) == {seq[i] : i \in 1 .. Len(seq)}

(***************************************************************************)
(* Bounds of the model.                                                    *)
(***************************************************************************)
\* Longest query (number of top-level calls).
MaxCalls == 2
\* Deepest chain of forwarded requests the model follows.
MaxDepth == 3

(***************************************************************************)
(* Holder (external collaborator): one index, two frames.  Frame "f" has   *)
(* inverse storage, frame "g" has not; no frame has a time quantum.  Row   *)
(* and column labels are the defaults.                                     *)
(***************************************************************************)
DefaultFrame == "general"
ViewStandard == "standard"
ViewInverse == "inverse"
Frames == {"f", "g"}
InverseEnabled(frame) == frame = "f"

\* An absent unsigned argument.
None == -1
RowIDs == 0 .. 1
ColIDs == 0 .. 5

\* A stored bit, in fragment coordinates: the slice of a bit of any view is
\* col \div SliceWidth of that view's column dimension.
Bit(frame, view, row, col) == <<frame, view, row, col>>

\* The bits every replica holds when the model starts.  Standard view of "f":
\* row 0 = {0, 3}, row 1 = {0, 2}; the inverse view holds the transposed bits.
InitCells ==
  { Bit("f", ViewStandard, 0, 0), Bit("f", ViewStandard, 0, 3),
    Bit("f", ViewStandard, 1, 0), Bit("f", ViewStandard, 1, 2),
    Bit("f", ViewInverse, 0, 0), Bit("f", ViewInverse, 3, 0),
    Bit("f", ViewInverse, 0, 1), Bit("f", ViewInverse, 2, 1),
    Bit("g", ViewStandard, 1, 1) }

SliceOf(col) == col \div SliceWidth

\* The bits of InitCells that node n holds: those of the slices it replicates.
InitBitsOf(n) == {b \in InitCells : n \in NodeSet(FragmentNodes(SliceOf(b[4])))}

SetMax(S) == CHOOSE x \in S : \A y \in S : y <= x

\* Index.MaxSlice() and Index.MaxInverseSlice(): the highest slice holding data.
MaxSlice == SetMax({0} \cup {SliceOf(b[4]) : b \in {c \in InitCells : c[2] = ViewStandard}})
MaxInverseSlice == SetMax({0} \cup {SliceOf(b[4]) : b \in {c \in InitCells : c[2] = ViewInverse}})

(***************************************************************************)
(* Attributes.                                                             *)
(***************************************************************************)
AttrKeys == {"k1", "k2"}
NoVal == "-"
AttrVals == {"v1", "v2"}
NoAttrs == [k \in AttrKeys |-> NoVal]
\* AttrStore.SetAttrs: the keys given overwrite the stored ones.
MergeAttrs(old, new) == [k \in AttrKeys |-> IF new[k] # NoVal THEN new[k] ELSE old[k]]

(***************************************************************************)
(* Calls (pql.Call).  An absent string argument is "", an absent unsigned  *)
(* argument is None.                                                       *)
(***************************************************************************)
Call(name) ==
  [name |-> name, frame |-> "f", row |-> None, col |-> None, view |-> "",
   children |-> <<>>, ids |-> <<>>, n |-> 0, attrs |-> NoAttrs]

BitmapRow(r) == [Call("Bitmap") EXCEPT !.row = r]
BitmapCol(c) == [Call("Bitmap") EXCEPT !.col = c]
Nary(name, kids) == [Call(name) EXCEPT !.frame = "", !.children = kids]
CountOf(kid) == Nary("Count", <<kid>>)
TopNCall(n) == [Call("TopN") EXCEPT !.n = n]
BitCall(name, frame, view, r, c) ==
  [Call(name) EXCEPT !.frame = frame, !.view = view, !.row = r, !.col = c]
RowAttrsCall(frame, r, k, v) ==
  [Call("SetRowAttrs") EXCEPT !.frame = frame, !.row = r, !.attrs = [NoAttrs EXCEPT ![k] = v]]
ColAttrsCall(c, k, v) ==
  [Call("SetColumnAttrs") EXCEPT !.frame = "", !.col = c, !.attrs = [NoAttrs EXCEPT ![k] = v]]

(***************************************************************************)
(* Values the executor returns.  One record shape for every kind, so that  *)
(* results of different calls can sit in one list.                         *)
(***************************************************************************)
ZeroPairs == [r \in RowIDs |-> 0]
NilVal == [kind |-> "nil", bits |-> {}, n |-> 0, flag |-> FALSE, pairs |-> ZeroPairs,
           attrs |-> NoAttrs]
BitmapVal(S) == [NilVal EXCEPT !.kind = "bitmap", !.bits = S]
CountVal(k) == [NilVal EXCEPT !.kind = "count", !.n = k]
PairsVal(p) == [NilVal EXCEPT !.kind = "pairs", !.pairs = p]
BoolVal(b) == [NilVal EXCEPT !.kind = "bool", !.flag = b]

\* An evaluation outcome: err = "" is Go's nil error.
Ok(v) == [err |-> "", val |-> v]
Fail(e) == [err |-> e, val |-> NilVal]

ErrFrameNotFound == "frame not found"
ErrSliceUnavailable == "slice unavailable"
ErrTransport == "transport error"
ErrCanceled == "context canceled"
\* The error of a local Frame.SetBit / Frame.ClearBit that fails.
ErrStorage == "storage error"

(***************************************************************************)
(* Per-slice evaluation on one node.  B is the set of bits that node holds. *)
(***************************************************************************)
\* Fragment.Row(id) of fragment (frame, view, slice); an absent fragment is empty.
Row(B, frame, view, slice, id) ==
  {b[4] : b \in {x \in B : x[1] = frame /\ x[2] = view /\ x[3] = id /\ SliceOf(x[4]) = slice}}

executeBitmapSlice(B, c, slice) ==
  LET frame == IF c.frame = "" THEN DefaultFrame ELSE c.frame
      rowOK == c.row # None
      columnOK == c.col # None
  IN  IF frame \notin Frames THEN Fail(ErrFrameNotFound)
      ELSE IF rowOK /\ columnOK THEN Fail("Bitmap() cannot specify both")
      ELSE IF ~rowOK /\ ~columnOK THEN Fail("Bitmap() must specify either")
      ELSE IF columnOK /\ ~InverseEnabled(frame) THEN Fail("Bitmap() inverse storage disabled")
      ELSE IF columnOK THEN Ok(BitmapVal(Row(B, frame, ViewInverse, slice, c.col)))
      ELSE Ok(BitmapVal(Row(B, frame, ViewStandard, slice, c.row)))

\* No frame of the model has a time quantum: Range() of an existing frame is empty.
executeRangeSlice(B, c, slice) ==
  LET frame == IF c.frame = "" THEN DefaultFrame ELSE c.frame
  IN  IF frame \notin Frames THEN Fail(ErrFrameNotFound) ELSE Ok(BitmapVal({}))

\* Operators applied with the operands the other way round.
CombineSwapped(name, other, bm) ==
  CASE name = "Difference" -> bm \ other
    [] name = "Intersect" -> bm \cap other
    [] OTHER -> bm \cup other

\* other.Difference(bm), other.Intersect(bm), other.Union(bm)
Combine(name, other, bm) ==
  CASE name = "Difference" -> other \ bm
    [] name = "Intersect" -> other \cap bm
    [] OTHER -> other \cup bm

RECURSIVE executeBitmapCallSlice(_, _, _)
RECURSIVE FoldChildren(_, _, _, _, _)

\* The loop over c.Children of executeDifferenceSlice, executeIntersectSlice and
\* executeUnionSlice, from child i on, other being the bitmap folded so far.
FoldChildren(B, c, slice, i, other) ==
  IF i > Len(c.children) THEN Ok(BitmapVal(other))
  ELSE LET r == executeBitmapCallSlice(B, c.children[i], slice)
       IN  IF r.err # "" THEN r
           ELSE FoldChildren(B, c, slice, i + 1,
                             IF i = 1 THEN r.val.bits ELSE Combine(c.name, other, r.val.bits))

executeBitmapCallSlice(B, c, slice) ==
  CASE c.name = "Bitmap" -> executeBitmapSlice(B, c, slice)
    [] c.name = "Difference" ->
         IF Len(c.children) = 0 THEN Fail("empty Difference query")
         ELSE FoldChildren(B, c, slice, 1, {})
    [] c.name = "Intersect" ->
         IF Len(c.children) = 0 THEN Fail("empty Intersect query")
         ELSE FoldChildren(B, c, slice, 1, {})
    [] c.name = "Range" -> executeRangeSlice(B, c, slice)
    [] c.name = "Union" -> FoldChildren(B, c, slice, 1, {})
    [] OTHER -> Fail("unknown call")

\* MinThreshold is the lowest count used in a Top-N operation.
MinThreshold == 1

RECURSIVE TopPairs(_, _)
\* The n best pairs of p (count descending, then row ascending); all of them if n = 0.
TopPairs(p, n) ==
  LET live == {r \in RowIDs : p[r] > 0}
  IN  IF n = 0 \/ Cardinality(live) <= n THEN p
      ELSE LET worst == CHOOSE r \in live :
                          \A o \in live : p[r] < p[o] \/ (p[r] = p[o] /\ r >= o)
           IN  TopPairs([p EXCEPT ![worst] = 0], n)

\* Fragment.Top(opt): per row the number of bits of the fragment (within Src if
\* given), for the rows of RowIDs if given, at least MinThreshold, the best N.
FragmentTop(B, frame, slice, n, hasSrc, src, ids) ==
  LET cnt(r) == LET row == Row(B, frame, ViewStandard, slice, r)
                IN  Cardinality(IF hasSrc THEN row \cap src ELSE row)
      p == [r \in RowIDs |->
              IF (ids = {} \/ r \in ids) /\ cnt(r) >= MinThreshold THEN cnt(r) ELSE 0]
  IN  TopPairs(p, n)

executeTopNSlice(B, c, slice) ==
  LET frame == IF c.frame = "" THEN DefaultFrame ELSE c.frame
      src == IF Len(c.children) = 1
             THEN executeBitmapCallSlice(B, c.children[1], slice)
             ELSE Ok(BitmapVal({}))
  IN  IF src.err # "" THEN src
      ELSE IF Len(c.children) > 1 THEN Fail("TopN() can only have one input bitmap")
      ELSE IF frame \notin Frames THEN Ok(PairsVal(ZeroPairs))
      ELSE Ok(PairsVal(FragmentTop(B, frame, slice, c.n, Len(c.children) = 1,
                                   src.val.bits, NodeSet(c.ids))))

\* The mapFn closures of executeBitmapCall, executeCount and executeTopNSlices.
MapFn(B, c, slice) ==
  CASE c.name = "Count" ->
         LET r == executeBitmapCallSlice(B, c.children[1], slice)
         IN  IF r.err # "" THEN r ELSE Ok(CountVal(Cardinality(r.val.bits)))
    [] c.name = "TopN" -> executeTopNSlice(B, c, slice)
    [] OTHER -> executeBitmapCallSlice(B, c, slice)

\* Pairs.Add: counts of equal row IDs are summed.
PairsAdd(p, o) == [r \in RowIDs |-> p[r] + o[r]]

\* A reducer that keeps only the value it is given: with it the result of a
\* reduction is the value that arrived last.
ReduceFnLast(c, prev, v) == v

\* The reduceFn closures; prev = NilVal is Go's nil accumulator.
ReduceFn(c, prev, v) ==
  CASE c.name = "Count" -> CountVal(prev.n + v.n)
    [] c.name = "TopN" -> PairsVal(PairsAdd(prev.pairs, v.pairs))
    [] OTHER -> BitmapVal(prev.bits \cup v.bits)

(***************************************************************************)
(* Helpers of Execute.                                                     *)
(***************************************************************************)
IsMutation(name) == name \in {"ClearBit", "SetBit", "SetRowAttrs", "SetColumnAttrs"}

\* needsSlices: true as soon as some call is no mutation.
needsSlices(calls) == \E i \in 1 .. Len(calls) : ~IsMutation(calls[i].name)

\* A test that is content with one SetRowAttrs call.
hasSomeSetRowAttrs(calls) ==
  \E i \in 1 .. Len(calls) : calls[i].name = "SetRowAttrs"

hasOnlySetRowAttrs(calls) ==
  Len(calls) # 0 /\ \A i \in 1 .. Len(calls) : calls[i].name = "SetRowAttrs"

\* pql.Call.SupportsInverse and pql.Call.IsInverse: a Bitmap() call that gives the
\* column label and not the row label reads the inverse view.
SupportsInverse(c) == c.name = "Bitmap"
IsInverse(c) == SupportsInverse(c) /\ c.row = None /\ c.col # None

\* The slices 0 .. max, in order.
SliceRange(max) == [i \in 1 .. (max + 1) |-> i - 1]

\* The slices and inverseSlices of Execute before its loop: both ranges are
\* enumerated only when no slices were given and some call needs them.
EnumSlices(calls, given) ==
  IF Len(given) = 0 /\ needsSlices(calls) THEN SliceRange(MaxSlice) ELSE given
EnumInverseSlices(calls, given) ==
  IF Len(given) = 0 /\ needsSlices(calls) THEN SliceRange(MaxInverseSlice) ELSE <<>>

\* One pass of the per-call block of Execute's loop: the error it returns, and
\* the value of its variable slices afterwards, which executeCall receives.
SelectSlices(calls, c, cur, inv) ==
  IF SupportsInverse(c) /\ needsSlices(calls)
  THEN IF (IF c.frame = "" THEN DefaultFrame ELSE c.frame) \notin Frames
       THEN [err |-> ErrFrameNotFound, slices |-> cur]
       ELSE [err |-> "", slices |-> IF IsInverse(c) THEN inv ELSE cur]
  ELSE [err |-> "", slices |-> cur]

RECURSIVE SlicesAtCall(_, _, _)
\* The slices executeCall receives for call i of Execute(calls, given), when every
\* earlier call returned without error.
SlicesAtCall(calls, given, i) ==
  SelectSlices(calls, calls[i],
               IF i = 1 THEN EnumSlices(calls, given)
               ELSE SlicesAtCall(calls, given, i - 1),
               EnumInverseSlices(calls, given)).slices

(***************************************************************************)
(* State.                                                                  *)
(***************************************************************************)
VARIABLES
  host,           \* e.Host, the node the executor runs on
  remote,         \* opt.Remote of this Execute
  depth,          \* 1 for a client's request, 1 + the sender's for a forwarded one
  q,              \* q.Calls
  argSlices,      \* the slices argument of Execute
  pc,             \* "idle", "loop", "mr", "bit", "attr", "done"
  ci,             \* index of the call the loop of Execute is at
  slices,         \* Execute's variable slices
  inverseSlices,  \* Execute's variable inverseSlices
  results,        \* Execute's variable results
  err,            \* the error Execute returned ("" is nil)
  dispatched,     \* indices of the calls handed to executeCall, in order
  bits,           \* per node, the bits of its fragments
  rowAttrs,       \* per node, the row attribute stores
  colAttrs,       \* per node, the column attribute store
  sent,           \* the requests exec has sent, each with the number of times
  writes,         \* the local writes of this Execute, in order
  mr,             \* the running mapReduce: call, slices, nodes, result, maxSlice
  tasks,          \* the tasks started by mapper that have not ended
  cancelled,      \* the caller's context is cancelled
  bit,            \* the running SetBit/ClearBit: passes left, replica index, ret
  attr            \* the running attribute fan-out: pending peers, resp channel

execVars == <<host, remote, depth, q, argSlices, pc, ci, slices, inverseSlices,
              results, err, dispatched>>
dataVars == <<bits, rowAttrs, colAttrs>>
logVars == <<sent, writes>>
mrVars == <<mr, tasks, cancelled>>
vars == <<execVars, dataVars, logVars, mrVars, bit, attr>>

AttrIDs == (Frames \X RowIDs)
\* reduced is history: per slice, how many times a value covering it has been
\* reduced into result.
NoMR == [call |-> Call("none"), slices |-> <<>>, nodes |-> {}, result |-> NilVal,
         maxSlice |-> 0, phase |-> 0, reduced |-> [s \in 0 .. MaxSlice |-> 0]]
\* any and views are history: the OR of the changed flags the replicas of the
\* current view reported, and per finished view what it returned against that OR.
NoBit == [passes |-> <<>>, k |-> 0, ret |-> FALSE, acc |-> FALSE, any |-> FALSE,
          views |-> <<>>]
NoAttr == [pending |-> {}, resp |-> <<>>, left |-> 0, bulk |-> FALSE]

Init ==
  /\ host = 0 /\ remote = FALSE /\ depth = 0
  /\ q = <<>> /\ argSlices = <<>>
  /\ pc = "idle" /\ ci = 0
  /\ slices = <<>> /\ inverseSlices = <<>>
  /\ results = <<>> /\ err = ""
  /\ dispatched = <<>>
  /\ bits = [n \in Nodes |-> InitBitsOf(n)]
  /\ rowAttrs = [n \in Nodes |-> [id \in AttrIDs |-> NoAttrs]]
  /\ colAttrs = [n \in Nodes |-> [id \in ColIDs |-> NoAttrs]]
  /\ sent = {}
  /\ writes = <<>>
  /\ mr = NoMR /\ tasks = {} /\ cancelled = FALSE
  /\ bit = NoBit /\ attr = NoAttr

(***************************************************************************)
(* exec: the request sent to a peer.                                       *)
(***************************************************************************)
\* A request that passes the sender's own Remote option on.
execRequestAsOpt(node, calls, sl, opt) ==
  [to |-> node, calls |-> calls, slices |-> sl, remote |-> opt,
   depth |-> depth + 1, ci |-> ci]

\* The QueryRequest exec encodes for node, sent by an executor whose options
\* are opt: Remote is set whatever opt.Remote is.
execRequest(node, calls, sl, opt) ==
  [to |-> node, calls |-> calls, slices |-> sl, remote |-> TRUE,
   depth |-> depth + 1, ci |-> ci]

\* How many times request r is in the log S.
SentCount(S, r) == IF \E e \in S : e.req = r THEN (CHOOSE e \in S : e.req = r).cnt ELSE 0
\* The log S after one more send of each request of R.
AddReqs(S, R) ==
  {e \in S : e.req \notin R} \cup {[req |-> r, cnt |-> SentCount(S, r) + 1] : r \in R}

(***************************************************************************)
(* Local storage operations.                                               *)
(***************************************************************************)
\* Frame.SetBit / Frame.ClearBit on the bits B of one node: whether the bit
\* changed, and the bits afterwards.
ApplyBit(name, B, frame, view, rowID, colID) ==
  LET b == Bit(frame, view, rowID, colID)
  IN  IF name = "SetBit"
      THEN [changed |-> b \notin B, bits |-> B \cup {b}]
      ELSE [changed |-> b \in B, bits |-> B \ {b}]

\* View passes whose inverse pass keeps the arguments of the standard pass.
BitPassesSameArgs(c) ==
  LET std == [view |-> ViewStandard, colID |-> c.col, rowID |-> c.row]
      inv == [view |-> ViewInverse, colID |-> c.col, rowID |-> c.row]
  IN  CASE c.view = ViewStandard -> <<std>>
        [] c.view = ViewInverse -> <<inv>>
        [] OTHER -> IF InverseEnabled(c.frame) THEN <<std, inv>> ELSE <<std>>

\* The calls of executeSetBitView / executeClearBitView that executeSetBit /
\* executeClearBit makes for call c, in order, with the arguments as the view
\* pass receives them (transposed for the inverse view).
BitPasses(c) ==
  LET std == [view |-> ViewStandard, colID |-> c.col, rowID |-> c.row]
      inv == [view |-> ViewInverse, colID |-> c.row, rowID |-> c.col]
  IN  CASE c.view = ViewStandard -> <<std>>
        [] c.view = ViewInverse -> <<inv>>
        [] OTHER -> IF InverseEnabled(c.frame) THEN <<std, inv>> ELSE <<std>>

\* The argument checks of executeSetBit / executeClearBit before any write.
BitArgsError(c) ==
  IF c.frame = "" THEN "frame required"
  ELSE IF c.frame \notin Frames THEN ErrFrameNotFound
  ELSE IF c.row = None THEN "row field required"
  ELSE IF c.col = None THEN "column field required"
  ELSE IF c.view \notin {ViewStandard, ViewInverse, ""} THEN "invalid view"
  ELSE ""

\* The argument checks of executeSetRowAttrs and of executeBulkSetRowAttrs.
RowAttrsError(c) ==
  IF c.frame = "" THEN "SetRowAttrs() frame required"
  ELSE IF c.frame \notin Frames THEN ErrFrameNotFound
  ELSE IF c.row = None THEN "SetRowAttrs() row field required"
  ELSE ""

\* The argument check of executeSetColumnAttrs.
ColAttrsError(c) == IF c.col = None THEN "reading SetColumnAttrs() id/columnLabel" ELSE ""

\* RowAttrStore().SetAttrs(rowID, attrs) on the row stores R of one node.
SetRowAttrs(R, c) == [R EXCEPT ![<<c.frame, c.row>>] = MergeAttrs(@, c.attrs)]
\* ColumnAttrStore().SetAttrs(id, attrs) on the column store C of one node.
SetColAttrs(C, c) == [C EXCEPT ![c.col] = MergeAttrs(@, c.attrs)]

\* A collecting loop that checks its first call only.
BulkErrorFirstOnly(calls, i) ==
  IF Len(calls) = 0 THEN "" ELSE RowAttrsError(calls[1])

RECURSIVE BulkError(_, _)
\* The first error of the collecting loop of executeBulkSetRowAttrs, from call i on.
BulkError(calls, i) ==
  IF i > Len(calls) THEN ""
  ELSE IF RowAttrsError(calls[i]) # "" THEN RowAttrsError(calls[i])
  ELSE BulkError(calls, i + 1)

RECURSIVE BulkMapFirstWins(_, _, _)
\* A map in which the first call that names a key keeps it.
BulkMapFirstWins(calls, i, m) ==
  IF i > Len(calls) THEN m
  ELSE BulkMapFirstWins(calls, i + 1,
         [m EXCEPT ![<<calls[i].frame, calls[i].row>>] = MergeAttrs(calls[i].attrs, @)])

RECURSIVE BulkMap(_, _, _)
\* The map m of executeBulkSetRowAttrs after calls i .. Len(calls), m being the
\* map before them: later calls overwrite earlier ones key by key.
BulkMap(calls, i, m) ==
  IF i > Len(calls) THEN m
  ELSE BulkMap(calls, i + 1,
               [m EXCEPT ![<<calls[i].frame, calls[i].row>>] = MergeAttrs(@, calls[i].attrs)])

\* SetBulkAttrs of every frame's map on the row stores R of one node.
SetBulkAttrs(R, calls) ==
  LET m == BulkMap(calls, 1, [id \in AttrIDs |-> NoAttrs])
  IN  [id \in AttrIDs |-> MergeAttrs(R[id], m[id])]

(***************************************************************************)
(* Planning (slicesByNode) and the parts of the read calls around          *)
(* mapReduce.                                                              *)
(***************************************************************************)
\* The first replica of slice that is in nodes, None if there is none.
FirstCandidate(nodes, slice) ==
  LET fn == FragmentNodes(slice)
      idx == {i \in 1 .. Len(fn) : fn[i] \in nodes}
  IN  IF idx = {} THEN None ELSE fn[CHOOSE i \in idx : \A j \in idx : i <= j]

\* A plan that leaves out the slices no node can take and reports no error.
slicesByNodeLax(nodes, sl) ==
  [err |-> "",
   m |-> [n \in Nodes |-> SelectSeq(sl, LAMBDA x : FirstCandidate(nodes, x) = n)]]

\* slicesByNode: per node the slices allocated to it, in the order of sl, or
\* errSliceUnavailable when some slice has no replica among nodes.
slicesByNode(nodes, sl) ==
  IF \E i \in 1 .. Len(sl) : FirstCandidate(nodes, sl[i]) = None
  THEN [err |-> ErrSliceUnavailable, m |-> [n \in Nodes |-> <<>>]]
  ELSE [err |-> "",
        m |-> [n \in Nodes |-> SelectSeq(sl, LAMBDA x : FirstCandidate(nodes, x) = n)]]

\* The checks of executeCount before it calls mapReduce.
CountArgsError(c) ==
  IF Len(c.children) = 0 THEN "Count() requires an input bitmap"
  ELSE IF Len(c.children) > 1 THEN "Count() only accepts a single bitmap input"
  ELSE ""

\* The attributes executeBitmapCall attaches after the reduction, read from the
\* stores RA (rows) and CA (columns) of the node that runs it.
AttachAttrs(c, v, RA, CA) ==
  IF c.name # "Bitmap" THEN v
  ELSE IF c.col # None THEN [v EXCEPT !.attrs = CA[c.col]]
  ELSE IF c.frame \in Frames
       THEN [v EXCEPT !.attrs = RA[<<c.frame, IF c.row = None THEN 0 ELSE c.row>>]]
  ELSE v

\* The candidate nodes mapReduce starts with.
CandidateNodes(opt) == IF ~opt THEN Nodes ELSE {host}

(***************************************************************************)
(* A peer serving a forwarded request: Execute on node n with the slices   *)
(* of the request and Remote set.  Nothing is forwarded, so what the peer  *)
(* answers is a function of its own data.  hang: the peer never answers.   *)
(***************************************************************************)
Hang == [hang |-> TRUE, err |-> "", val |-> NilVal]
Answer(r) == [hang |-> FALSE, err |-> r.err, val |-> r.val]

RECURSIVE ReduceAll(_, _, _, _, _)
\* reduceFn over the map values of slices i .. Len(sl), onto acc.
ReduceAll(B, c, sl, i, acc) ==
  IF i > Len(sl) THEN acc
  ELSE ReduceAll(B, c, sl, i + 1, ReduceFn(c, acc, MapFn(B, c, sl[i]).val))

\* mapReduce on node n with only n as candidate.
PeerMapReduce(n, B, c, sl) ==
  IF slicesByNode({n}, sl).err # "" THEN Answer(Fail(ErrSliceUnavailable))
  ELSE IF Len(sl) = 0 THEN Hang
  ELSE IF \E i \in 1 .. Len(sl) : MapFn(B, c, sl[i]).err # ""
       THEN Answer(MapFn(B, c, sl[CHOOSE i \in 1 .. Len(sl) : MapFn(B, c, sl[i]).err # ""]))
  ELSE Answer(Ok(ReduceAll(B, c, sl, 1, NilVal)))

\* Execute of the one read call c on node n.
PeerExecuteRead(n, c, sl) ==
  LET sel == SelectSlices(<<c>>, c, EnumSlices(<<c>>, sl), EnumInverseSlices(<<c>>, sl))
      out == PeerMapReduce(n, bits[n], c, sel.slices)
  IN  IF sel.err # "" THEN Answer(Fail(sel.err))
      ELSE IF c.name = "Count" /\ CountArgsError(c) # "" THEN Answer(Fail(CountArgsError(c)))
      ELSE IF out.hang \/ out.err # "" THEN out
      ELSE Answer(Ok(AttachAttrs(c, out.val, rowAttrs[n], colAttrs[n])))

RECURSIVE PeerBitPasses(_, _, _, _, _)
\* The view passes i .. of SetBit/ClearBit call c on node n: the peer writes
\* where it is a replica and forwards nothing.
PeerBitPasses(n, c, i, B, changed) ==
  LET ps == BitPasses(c)
  IN  IF i > Len(ps) THEN [changed |-> changed, bits |-> B]
      ELSE IF n \in NodeSet(FragmentNodes(SliceOf(ps[i].colID)))
           THEN LET w == ApplyBit(c.name, B, c.frame, ps[i].view, ps[i].rowID, ps[i].colID)
                IN  PeerBitPasses(n, c, i + 1, w.bits, changed \/ w.changed)
           ELSE PeerBitPasses(n, c, i + 1, B, changed)

\* Execute of the one SetBit/ClearBit call c on node n.
PeerExecuteBit(n, c) ==
  IF BitArgsError(c) # "" THEN [err |-> BitArgsError(c), changed |-> FALSE, bits |-> bits[n]]
  ELSE LET w == PeerBitPasses(n, c, 1, bits[n], FALSE)
       IN  [err |-> "", changed |-> w.changed, bits |-> w.bits]

(***************************************************************************)
(* Execute: the loop over the calls.                                       *)
(***************************************************************************)
constVars == <<host, remote, depth, q, argSlices, inverseSlices>>

\* A loop that puts each result in front of the earlier ones.
ReturnCallPrepend(v, e) ==
  /\ results' = IF e # "" THEN <<>> ELSE <<v>> \o results
  /\ err' = e
  /\ ci' = IF e # "" THEN ci ELSE ci + 1
  /\ pc' = IF e # "" \/ ci = Len(q) THEN "done" ELSE "loop"

\* A loop that remembers an error and goes on with the next call.
ReturnCallGoesOn(v, e) ==
  /\ results' = IF e # "" THEN results ELSE Append(results, v)
  /\ err' = IF e # "" THEN e ELSE err
  /\ ci' = IF ci = Len(q) THEN ci ELSE ci + 1
  /\ pc' = IF ci = Len(q) THEN "done" ELSE "loop"

\* The end of one pass of the loop of Execute, executeCall having returned
\* (v, e): an error ends Execute with no results, a value is appended.
ReturnCall(v, e) ==
  /\ results' = IF e # "" THEN <<>> ELSE Append(results, v)
  /\ err' = e
  /\ ci' = IF e # "" THEN ci ELSE ci + 1
  /\ pc' = IF e # "" \/ ci = Len(q) THEN "done" ELSE "loop"

\* The call goes on in another step.
Continue(p) == pc' = p /\ UNCHANGED <<ci, results, err>>

\* Whether mapper forwards the slices of another node.
mapperForwards(opt) == ~opt

\* The task mapper starts for node n and its slices: mapperLocal on the local
\* node, exec on another node, and neither when the request is itself remote.
NewTask(n, nodeSlices) ==
  [node |-> n, slices |-> nodeSlices,
   st |-> IF n = host \/ mapperForwards(remote) THEN "run" ELSE "ready",
   pend |-> IF n = host THEN 1 .. Len(nodeSlices) ELSE {},
   acc |-> NilVal, res |-> NilVal, err |-> ""]

\* A mapper that plans over every node of the cluster, whatever the candidates.
mapperAnyNode(nodes, sl, c) ==
  LET plan == slicesByNode(Nodes, sl)
      targets == {n \in Nodes : plan.m[n] # <<>>}
  IN  [err |-> plan.err,
       tasks |-> {NewTask(n, plan.m[n]) : n \in targets},
       reqs |-> {execRequest(n, <<c>>, plan.m[n], remote) :
                   n \in {t \in targets : t # host /\ mapperForwards(remote)}}]

\* mapper: the plan's error, else the tasks started and the requests sent.
mapper(nodes, sl, c) ==
  LET plan == slicesByNode(nodes, sl)
      targets == {n \in Nodes : plan.m[n] # <<>>}
  IN  [err |-> plan.err,
       tasks |-> {NewTask(n, plan.m[n]) : n \in targets},
       reqs |-> {execRequest(n, <<c>>, plan.m[n], remote) :
                   n \in {t \in targets : t # host /\ mapperForwards(remote)}}]

\* mapReduce up to its loop: candidate nodes, first mapper.  T: the tasks so far.
StartMapReduce(c, sl, phase, T) ==
  LET mp == mapper(CandidateNodes(remote), sl, c)
      m0 == [call |-> c, slices |-> sl, nodes |-> CandidateNodes(remote),
             result |-> NilVal, maxSlice |-> 0, phase |-> phase,
             reduced |-> NoMR.reduced]
  IN  /\ mr' = m0
      /\ IF mp.err # ""
         THEN ReturnCall(NilVal, mp.err) /\ tasks' = T /\ sent' = sent
         ELSE Continue("mr") /\ tasks' = T \cup mp.tasks /\ sent' = AddReqs(sent, mp.reqs)

\* The row IDs of a pair list.
PairKeys(p) == {r \in RowIDs : p[r] > 0}

\* Whether executeTopN asks again for the exact counts.
Refetches(c, pairs, opt) == ~(PairKeys(pairs) = {} \/ Len(c.ids) > 0 \/ opt)

RECURSIVE Keys(_)
\* Pairs(pairs).Keys(): the row IDs of the pairs in the order of the list,
\* which executeTopNSlices has sorted by count, highest first.
Keys(p) ==
  IF PairKeys(p) = {} THEN <<>>
  ELSE LET best == CHOOSE r \in PairKeys(p) :
                     \A o \in PairKeys(p) : p[r] > p[o] \/ (p[r] = p[o] /\ r <= o)
       IN  <<best>> \o Keys([p EXCEPT ![best] = 0])

\* A list left in the order it has.
Unsorted(ids) == ids

\* sort.Sort(uint64Slice(ids)): the IDs in ascending order.
SortIDs(ids) ==
  [i \in 1 .. Len(ids) |->
     CHOOSE x \in NodeSet(ids) : Cardinality({y \in NodeSet(ids) : y < x}) = i - 1]

\* mapReduce returns (v, e) to executeBitmapCall, executeCount or executeTopN,
\* which returns to Execute, or, for TopN, runs the second round.
\* T, M: the tasks and the mapReduce state at that moment.
FinishMapReduce(v, e, T, M) ==
  IF e # "" THEN ReturnCall(NilVal, e) /\ mr' = M /\ tasks' = T /\ sent' = sent
  ELSE IF M.call.name = "TopN" /\ M.phase = 1 /\ Refetches(M.call, v.pairs, remote)
       THEN StartMapReduce([M.call EXCEPT !.ids = SortIDs(Keys(v.pairs))], M.slices, 2, T)
  ELSE /\ mr' = M /\ tasks' = T /\ sent' = sent
       /\ ReturnCall(CASE M.call.name = "TopN" /\ M.phase = 2 ->
                            PairsVal(TopPairs(v.pairs, M.call.n))
                       [] M.call.name = "TopN" -> PairsVal(v.pairs)
                       [] M.call.name = "Count" -> CountVal(v.n)
                       [] OTHER -> AttachAttrs(M.call, BitmapVal(v.bits),
                                               rowAttrs[host], colAttrs[host]),
                     "")

\* A fan-out to every node of the cluster, the local one too.
FanOutToAll(calls, bulk) ==
  /\ attr' = [pending |-> Nodes, resp |-> <<>>, left |-> Cardinality(Nodes),
              bulk |-> bulk]
  /\ sent' = AddReqs(sent, {execRequest(n, calls, <<>>, remote) : n \in Nodes})
  /\ pc' = "attr"

\* The fan-out of executeSetRowAttrs, executeSetColumnAttrs and
\* executeBulkSetRowAttrs: one task per other node, each sending calls.
FanOut(calls, bulk) ==
  LET peers == Nodes \ {host}
  IN  /\ attr' = [pending |-> peers, resp |-> <<>>, left |-> Cardinality(peers),
                  bulk |-> bulk]
      /\ sent' = AddReqs(sent, {execRequest(n, calls, <<>>, remote) : n \in peers})
      /\ pc' = "attr"

\* The local write w of call ci, added to the log.
Logged(w) ==
  writes' = Append(writes, [ci |-> ci, what |-> w, node |-> host, frame |-> q[ci].frame])

RECURSIVE SeqOfSet(_)
\* The elements of S, each once, in some order.
SeqOfSet(S) ==
  IF S = {} THEN <<>>
  ELSE LET x == CHOOSE y \in S : TRUE IN <<x>> \o SeqOfSet(S \ {x})

\* The frames of the map m of executeBulkSetRowAttrs.
BulkFrames(calls) == {calls[i].frame : i \in 1 .. Len(calls)}

\* The loop "for name, frameMap := range m": one SetBulkAttrs per frame of m,
\* added to the log.
LoggedBulk(calls) ==
  writes' = writes \o [i \in 1 .. Cardinality(BulkFrames(calls)) |->
                         [ci |-> ci, what |-> "bulkattrs", node |-> host,
                          frame |-> SeqOfSet(BulkFrames(calls))[i]]]

\* A new Execute(calls, given) on node h with opt.Remote = r.
Begin(h, r, d, calls, given) ==
  /\ host' = h /\ remote' = r /\ depth' = d /\ q' = calls /\ argSlices' = given
  /\ slices' = EnumSlices(calls, given)
  /\ inverseSlices' = EnumInverseSlices(calls, given)
  /\ results' = <<>> /\ err' = "" /\ ci' = 1 /\ dispatched' = <<>>
  /\ pc' = IF hasOnlySetRowAttrs(calls) THEN "bulk"
           ELSE IF Len(calls) = 0 THEN "done" ELSE "loop"
  /\ sent' = {} /\ writes' = <<>>
  /\ mr' = NoMR /\ tasks' = {} /\ cancelled' = FALSE
  /\ bit' = NoBit /\ attr' = NoAttr
  /\ UNCHANGED dataVars

(***************************************************************************)
(* The queries the model runs.                                             *)
(***************************************************************************)
Menu ==
  { BitmapRow(0), BitmapCol(0),
    Nary("Union", <<BitmapRow(0), BitmapRow(1)>>),
    Nary("Intersect", <<BitmapRow(0), BitmapRow(1)>>),
    Nary("Difference", <<BitmapRow(0), BitmapRow(1)>>),
    [Call("Range") EXCEPT !.row = 0],
    CountOf(BitmapRow(1)),
    TopNCall(1),
    BitCall("SetBit", "f", "", 1, 3),
    BitCall("ClearBit", "g", "", 1, 1),
    RowAttrsCall("f", 1, "k1", "v1"),
    RowAttrsCall("f", 1, "k1", "v2"),
    RowAttrsCall("g", 0, "k2", "v1"),
    ColAttrsCall(0, "k2", "v1"),
    Nary("Intersect", <<>>),
    Nary("Count", <<>>) }

\* The calls a query may hold before its last call.
PrefixMenu ==
  { BitmapCol(0), BitCall("SetBit", "f", "", 1, 3), RowAttrsCall("f", 1, "k1", "v1"),
    Nary("Count", <<>>) }

\* A query that sets a bit in a slice above MaxSlice and then reads its row.
NewSliceQuery == <<BitCall("SetBit", "f", "", 0, 4), BitmapRow(0)>>

Queries ==
  {<<>>, NewSliceQuery} \cup
  UNION { {Append(p, c) : p \in [1 .. k -> PrefixMenu], c \in Menu} :
          k \in 0 .. (MaxCalls - 1) }

\* The slices argument: none, the full standard range, the full inverse range.
GivenSlices == {<<>>, SliceRange(MaxSlice), SliceRange(MaxInverseSlice)}

(***************************************************************************)
(* Actions.                                                                *)
(***************************************************************************)
\* A client sends a query to node h.
Start ==
  /\ pc = "idle"
  /\ \E h \in Nodes, r \in BOOLEAN, calls \in Queries, given \in GivenSlices :
       Begin(h, r, 1, calls, given)

\* A peer receives a request exec sent and runs Execute with the options and
\* the slices the request carries.
Deliver ==
  /\ pc = "done"
  /\ \E e \in sent :
       /\ e.req.depth <= MaxDepth
       /\ Begin(e.req.to, e.req.remote, e.req.depth, e.req.calls, e.req.slices)

\* executeBulkSetRowAttrs.
BulkSetRowAttrs ==
  /\ pc = "bulk"
  /\ UNCHANGED <<constVars, slices, dispatched, bits, colAttrs, mrVars, bit, ci>>
  /\ IF BulkError(q, 1) # ""
     THEN /\ pc' = "done" /\ err' = BulkError(q, 1) /\ results' = <<>>
          /\ UNCHANGED <<rowAttrs, sent, writes, attr>>
     ELSE /\ rowAttrs' = [rowAttrs EXCEPT ![host] = SetBulkAttrs(@, q)]
          /\ LoggedBulk(q)
          /\ err' = ""
          /\ IF remote
             THEN /\ pc' = "done" /\ results' = [i \in 1 .. Len(q) |-> NilVal]
                  /\ UNCHANGED <<sent, attr>>
             ELSE FanOut(q, TRUE) /\ results' = results

\* One pass of the loop of Execute up to the point where the call waits for a
\* task or a peer: the choice of the slices, executeCall, and the start of
\* executeSetBit/ClearBit, of the attribute calls or of mapReduce.
Dispatch ==
  /\ pc = "loop"
  /\ UNCHANGED <<constVars, cancelled, bits>>
  /\ LET c == q[ci]
         sel == SelectSlices(q, c, slices, inverseSlices)
     IN  IF sel.err # ""
         THEN /\ ReturnCall(NilVal, sel.err)
              /\ UNCHANGED <<slices, dispatched, rowAttrs, colAttrs, logVars, mr, tasks,
                             bit, attr>>
         ELSE /\ slices' = sel.slices
              /\ dispatched' = Append(dispatched, ci)
              /\ CASE c.name \in {"SetBit", "ClearBit"} ->
                        /\ UNCHANGED <<rowAttrs, colAttrs, logVars, mr, tasks, attr>>
                        /\ IF BitArgsError(c) # ""
                           THEN ReturnCall(NilVal, BitArgsError(c)) /\ bit' = bit
                           ELSE /\ Continue("bit")
                                /\ bit' = [NoBit EXCEPT !.passes = BitPasses(c), !.k = 1]
                   [] c.name = "SetRowAttrs" ->
                        /\ UNCHANGED <<colAttrs, mr, tasks, bit>>
                        /\ IF RowAttrsError(c) # ""
                           THEN /\ ReturnCall(NilVal, RowAttrsError(c))
                                /\ UNCHANGED <<rowAttrs, logVars, attr>>
                           ELSE \E ok \in BOOLEAN :
                                  IF ~ok
                                  THEN /\ ReturnCall(NilVal, ErrStorage)
                                       /\ UNCHANGED <<rowAttrs, logVars, attr>>
                                  ELSE /\ rowAttrs' = [rowAttrs EXCEPT ![host] = SetRowAttrs(@, c)]
                                       /\ Logged("rowattrs")
                                       /\ IF remote
                                          THEN ReturnCall(NilVal, "") /\ UNCHANGED <<sent, attr>>
                                          ELSE FanOut(<<c>>, FALSE) /\ UNCHANGED <<ci, results, err>>
                   [] c.name = "SetColumnAttrs" ->
                        /\ UNCHANGED <<rowAttrs, mr, tasks, bit>>
                        /\ IF ColAttrsError(c) # ""
                           THEN /\ ReturnCall(NilVal, ColAttrsError(c))
                                /\ UNCHANGED <<colAttrs, logVars, attr>>
                           ELSE \E ok \in BOOLEAN :
                                  IF ~ok
                                  THEN /\ ReturnCall(NilVal, ErrStorage)
                                       /\ UNCHANGED <<colAttrs, logVars, attr>>
                                  ELSE /\ colAttrs' = [colAttrs EXCEPT ![host] = SetColAttrs(@, c)]
                                       /\ Logged("colattrs")
                                       /\ IF remote
                                          THEN ReturnCall(NilVal, "") /\ UNCHANGED <<sent, attr>>
                                          ELSE FanOut(<<c>>, FALSE) /\ UNCHANGED <<ci, results, err>>
                   [] c.name = "Count" /\ CountArgsError(c) # "" ->
                        /\ ReturnCall(NilVal, CountArgsError(c))
                        /\ UNCHANGED <<rowAttrs, colAttrs, logVars, mr, tasks, bit, attr>>
                   [] OTHER ->
                        /\ UNCHANGED <<rowAttrs, colAttrs, writes, bit, attr>>
                        /\ StartMapReduce(c, sel.slices, 1, tasks)

(***************************************************************************)
(* mapReduce, mapper and mapperLocal.                                      *)
(***************************************************************************)
\* A context that only the caller ends.
callerDone == cancelled

\* The context of the tasks is done: the caller cancelled, or mapReduce has
\* returned (its deferred cancel).
ctxDone == cancelled \/ pc # "mr"

\* mapperLocal of local task t receives the response of slice t.slices[i]: an
\* error ends mapperLocal, a value is reduced, the last value ends it.
LocalSliceDone ==
  /\ \E t \in tasks : \E i \in t.pend :
       /\ t.st = "run" /\ t.node = host
       /\ LET r == MapFn(bits[host], mr.call, t.slices[i])
              acc2 == ReduceFn(mr.call, t.acc, r.val)
              t2 == IF r.err # ""
                    THEN [t EXCEPT !.st = "ready", !.pend = {}, !.err = r.err]
                    ELSE IF t.pend = {i}
                    THEN [t EXCEPT !.st = "ready", !.pend = {}, !.acc = acc2, !.res = acc2]
                    ELSE [t EXCEPT !.pend = @ \ {i}, !.acc = acc2]
          IN  tasks' = (tasks \ {t}) \cup {t2}
  /\ UNCHANGED <<execVars, dataVars, logVars, mr, cancelled, bit, attr>>

\* mapperLocal of local task t sees its context done and returns ctx.Err().
LocalCtxDone ==
  /\ ctxDone
  /\ \E t \in tasks :
       /\ t.st = "run" /\ t.node = host
       /\ tasks' = (tasks \ {t}) \cup {[t EXCEPT !.st = "ready", !.pend = {}, !.err = ErrCanceled]}
  /\ UNCHANGED <<execVars, dataVars, logVars, mr, cancelled, bit, attr>>

\* exec of remote task t returns: a transport error, or what the peer answers.
RemoteRespond ==
  /\ \E t \in tasks : \E ok \in BOOLEAN :
       /\ t.st = "run" /\ t.node # host
       /\ LET out == PeerExecuteRead(t.node, mr.call, t.slices)
          IN  /\ ok => ~out.hang
              /\ tasks' = (tasks \ {t}) \cup
                   {IF ~ok THEN [t EXCEPT !.st = "ready", !.err = ErrTransport]
                    ELSE [t EXCEPT !.st = "ready", !.err = out.err, !.res = out.val]}
  /\ UNCHANGED <<execVars, dataVars, logVars, mr, cancelled, bit, attr>>

\* A task blocked on its send to ch sees its context done and ends.
TaskExit ==
  /\ ctxDone
  /\ \E t \in tasks : t.st = "ready" /\ tasks' = tasks \ {t}
  /\ UNCHANGED <<execVars, dataVars, logVars, mr, cancelled, bit, attr>>

\* How many times slice s occurs in sl.
Times(sl, s) == Cardinality({i \in 1 .. Len(sl) : sl[i] = s})

\* A filter that removes nothing.
KeepNode(nodes, n) == nodes

\* Nodes(nodes).Filter(n): nodes without n.
FilterNode(nodes, n) == nodes \ {n}

\* A counter of responses, not of slices.
AddOne(maxSlice, sl) == maxSlice + 1

\* maxSlice += len(resp.slices)
AddProcessed(maxSlice, sl) == maxSlice + Len(sl)

\* A test that is content with the first response.
AnyProcessed(maxSlice, sl) == maxSlice >= 1

\* Whether all slices have been processed: maxSlice >= len(slices).
AllProcessed(maxSlice, sl) == maxSlice >= Len(sl)

\* The loop of mapReduce receives the response of task t: on an error the node
\* is filtered out and the slices of t are mapped again; a value is reduced,
\* and mapReduce returns once maxSlice has reached len(slices).
Receive ==
  /\ pc = "mr"
  /\ UNCHANGED <<constVars, slices, dispatched, dataVars, writes, cancelled, bit, attr>>
  /\ \E t \in tasks :
       /\ t.st = "ready"
       /\ IF t.err # ""
          THEN LET nodes2 == FilterNode(mr.nodes, t.node)
                   mp == mapper(nodes2, t.slices, mr.call)
                   m2 == [mr EXCEPT !.nodes = nodes2]
               IN  IF mp.err # ""
                   THEN FinishMapReduce(NilVal, t.err, tasks \ {t}, m2)
                   ELSE /\ Continue("mr")
                        /\ mr' = m2
                        /\ tasks' = (tasks \ {t}) \cup mp.tasks
                        /\ sent' = AddReqs(sent, mp.reqs)
          ELSE LET m2 == [mr EXCEPT !.result = ReduceFn(mr.call, mr.result, t.res),
                                    !.maxSlice = AddProcessed(@, t.slices),
                                    !.reduced = [s \in DOMAIN @ |->
                                                   @[s] + Times(t.slices, s)]]
               IN  IF AllProcessed(m2.maxSlice, mr.slices)
                   THEN FinishMapReduce(m2.result, "", tasks \ {t}, m2)
                   ELSE /\ Continue("mr")
                        /\ mr' = m2
                        /\ tasks' = tasks \ {t}
                        /\ sent' = sent

\* The loop of mapReduce takes the ctx.Done() case and returns ctx.Err().
CtxDone ==
  /\ pc = "mr" /\ cancelled
  /\ FinishMapReduce(NilVal, ErrCanceled, tasks, mr)
  /\ UNCHANGED <<constVars, slices, dispatched, dataVars, writes, cancelled, bit, attr>>

\* The caller cancels the context it gave to Execute.
CallerCancel ==
  /\ pc = "mr" /\ ~cancelled
  /\ cancelled' = TRUE
  /\ UNCHANGED <<execVars, dataVars, logVars, mr, tasks, bit, attr>>

(***************************************************************************)
(* executeSetBitView / executeClearBitView: the loop over the replicas.    *)
(***************************************************************************)
BitPass == bit.passes[1]
\* Every node of the cluster, as a replica sequence.
EveryNode == [i \in 1 .. NumNodes |-> i - 1]
\* The replicas of the pass, last first.
BitReplicasBackwards ==
  [i \in 1 .. ReplicaN |-> FragmentNodes(SliceOf(BitPass.colID))[ReplicaN + 1 - i]]
BitReplicas == FragmentNodes(SliceOf(BitPass.colID))
BitNode == BitReplicas[bit.k]

\* ret after a forwarded call answered res.
ForwardedRet(ret, res) == res

\* A replica loop that never skips.
bitNeverSkips(opt) == FALSE

\* Whether a replica on another node is skipped.
bitSkips(opt) == opt

\* The replica at position k is done, it reported changed (FALSE if skipped) and
\* ret is ret2: the next replica, the next view, or the return of executeSetBit /
\* executeClearBit.
BitAdvance(ret2, changed) ==
  LET done == Append(bit.views, [view |-> BitPass.view, ret |-> ret2,
                                 any |-> bit.any \/ changed])
  IN  IF bit.k < Len(BitReplicas)
      THEN Continue("bit")
           /\ bit' = [bit EXCEPT !.k = @ + 1, !.ret = ret2, !.any = @ \/ changed]
      ELSE IF Len(bit.passes) > 1
      THEN Continue("bit")
           /\ bit' = [passes |-> Tail(bit.passes), k |-> 1, ret |-> FALSE,
                      acc |-> bit.acc \/ ret2, any |-> FALSE, views |-> done]
      ELSE /\ ReturnCall(BoolVal(bit.acc \/ ret2), "")
           /\ bit' = [bit EXCEPT !.ret = ret2, !.acc = bit.acc \/ ret2,
                                 !.any = @ \/ changed, !.views = done]

\* The replica is the local node: the bit is written locally, or the write
\* fails and the view pass returns its error.
BitLocal ==
  /\ pc = "bit" /\ BitNode = host
  /\ \E ok \in BOOLEAN :
       LET w == ApplyBit(q[ci].name, bits[host], q[ci].frame, BitPass.view,
                         BitPass.rowID, BitPass.colID)
       IN  IF ok
           THEN /\ bits' = [bits EXCEPT ![host] = w.bits]
                /\ Logged(BitPass.view)
                /\ BitAdvance(bit.ret \/ w.changed, w.changed)
           ELSE /\ ReturnCall(NilVal, ErrStorage)
                /\ UNCHANGED <<bits, writes, bit>>
  /\ UNCHANGED <<constVars, slices, dispatched, rowAttrs, colAttrs, sent, mrVars, attr>>

\* The replica is another node and this call is itself forwarded: skipped.
BitSkip ==
  /\ pc = "bit" /\ BitNode # host /\ bitSkips(remote)
  /\ BitAdvance(bit.ret, FALSE)
  /\ UNCHANGED <<constVars, slices, dispatched, dataVars, logVars, mrVars, attr>>

\* The replica is another node: the call is forwarded to it; exec fails, or the
\* peer runs the call and answers whether it changed a bit.
BitForward ==
  /\ pc = "bit" /\ BitNode # host /\ ~bitSkips(remote)
  /\ sent' = AddReqs(sent, {execRequest(BitNode, <<q[ci]>>, <<>>, remote)})
  /\ \E ok \in BOOLEAN :
       LET peer == PeerExecuteBit(BitNode, q[ci])
       IN  IF ok /\ peer.err = ""
           THEN /\ bits' = [bits EXCEPT ![BitNode] = peer.bits]
                /\ BitAdvance(ForwardedRet(bit.ret, peer.changed), peer.changed)
           ELSE /\ ReturnCall(NilVal, IF ok THEN peer.err ELSE ErrTransport)
                /\ UNCHANGED <<bits, bit>>
  /\ UNCHANGED <<constVars, slices, dispatched, rowAttrs, colAttrs, writes, mrVars, attr>>

(***************************************************************************)
(* The attribute fan-out.                                                  *)
(***************************************************************************)
\* exec of the task for peer n returns: a transport error, or the peer has run
\* the call (the calls, on the bulk path) with Remote set; the task sends the
\* error to the buffered channel resp.
AttrPeerDone ==
  /\ \E n \in attr.pending : \E ok \in BOOLEAN :
       /\ attr' = [attr EXCEPT !.pending = @ \ {n},
                               !.resp = Append(@, IF ok THEN "" ELSE ErrTransport)]
       /\ IF ~ok THEN UNCHANGED <<rowAttrs, colAttrs>>
          ELSE IF attr.bulk
          THEN rowAttrs' = [rowAttrs EXCEPT ![n] = SetBulkAttrs(@, q)] /\ colAttrs' = colAttrs
          ELSE IF q[ci].name = "SetRowAttrs"
          THEN rowAttrs' = [rowAttrs EXCEPT ![n] = SetRowAttrs(@, q[ci])] /\ colAttrs' = colAttrs
          ELSE colAttrs' = [colAttrs EXCEPT ![n] = SetColAttrs(@, q[ci])] /\ rowAttrs' = rowAttrs
  /\ UNCHANGED <<execVars, bits, logVars, mrVars, bit>>

\* The loop "for range nodes" receives one response: the first error is
\* returned, and nil after the last response.
AttrReceive ==
  /\ pc = "attr" /\ attr.resp # <<>>
  /\ attr' = [attr EXCEPT !.resp = Tail(@), !.left = @ - 1]
  /\ IF attr.bulk
     THEN /\ ci' = ci
          /\ err' = Head(attr.resp)
          /\ pc' = IF Head(attr.resp) # "" \/ attr.left = 1 THEN "done" ELSE "attr"
          /\ results' = IF Head(attr.resp) = "" /\ attr.left = 1
                        THEN [i \in 1 .. Len(q) |-> NilVal] ELSE <<>>
     ELSE IF Head(attr.resp) # "" THEN ReturnCall(NilVal, Head(attr.resp))
     ELSE IF attr.left = 1 THEN ReturnCall(NilVal, "")
     ELSE Continue("attr")
  /\ UNCHANGED <<constVars, slices, dispatched, dataVars, logVars, mrVars, bit>>

Next ==
  \/ Start
  \/ Deliver
  \/ BulkSetRowAttrs
  \/ Dispatch
  \/ LocalSliceDone
  \/ LocalCtxDone
  \/ RemoteRespond
  \/ TaskExit
  \/ Receive
  \/ CtxDone
  \/ CallerCancel
  \/ BitLocal
  \/ BitSkip
  \/ BitForward
  \/ AttrPeerDone
  \/ AttrReceive

Spec == Init /\ [][Next]_vars

(***************************************************************************)
(* Properties.                                                             *)
(***************************************************************************)
\* The call most recently handed to executeCall.
LastDispatched == dispatched[Len(dispatched)]

\* The read call handed to executeCall last has returned its value to Execute
\* and the next call has not been taken up: mr is the mapReduce that produced
\* the value and the data are those it ran on.
MapReduceReturned ==
  /\ pc \in {"loop", "done"} /\ err = ""
  /\ dispatched # <<>>
  /\ Len(results) = LastDispatched
  /\ ~IsMutation(q[LastDispatched].name)
  /\ Len(mr.slices) > 0

\* C1: an Execute whose options carry Remote = true never calls exec: it sends
\* no request, for no kind of call and whatever errors occur locally; no task
\* of it runs exec and no attribute fan-out is pending.
RemoteNeverCallsExec ==
  remote => /\ sent = {}
            /\ attr.pending = {}
            /\ \A t \in tasks : t.node = host

\* A forwarded-style Execute (Remote = true) has run a write and a read call to
\* the end.
RemoteNeverCallsExecWitness ==
  /\ remote /\ pc = "done" /\ err = ""
  /\ Len(results) = 2 /\ writes # <<>> /\ Len(mr.slices) > 0

\* C2: every request exec sends carries Remote = true, so that the Execute of
\* a forwarded request forwards nothing: a chain of requests has at most the
\* client's request and one forwarded request (depth 2).
ExecSetsRemote ==
  /\ \A e \in sent : e.req.remote = TRUE /\ e.req.depth <= 2
  /\ depth <= 2
  /\ depth = 2 => remote /\ sent = {}

\* A peer has served a forwarded request to the end.
ExecSetsRemoteWitness ==
  /\ depth = 2 /\ pc = "done" /\ err = "" /\ results # <<>>

\* The first replica of slice s, in FragmentNodes order, that is in rem.
FirstRemaining(rem, s) ==
  LET fn == FragmentNodes(s)
      j == CHOOSE j \in 1 .. Len(fn) :
             fn[j] \in rem /\ \A k \in 1 .. (j - 1) : fn[k] \notin rem
  IN  fn[j]

\* The coordinator's mapReduce takes the transport error of task t off the
\* channel (no other step removes a ready task while the context is live), and
\* every slice of t has a replica among the candidates left: each slice of t is
\* dispatched again, to its first remaining replica, and nothing else is.
FailoverStep ==
  \A t \in tasks :
    LET rem == mr.nodes \ {t.node}
        sl == NodeSet(t.slices)
    IN  ( /\ pc = "mr" /\ ~remote /\ ~cancelled
          /\ t.st = "ready" /\ t.err = ErrTransport
          /\ t \notin tasks'
          /\ \A s \in sl : NodeSet(FragmentNodes(s)) \cap rem # {} )
        => /\ pc' = "mr"
           /\ \A s \in sl :
                \E u \in tasks' \ tasks :
                  /\ u.node = FirstRemaining(rem, s)
                  /\ s \in NodeSet(u.slices)
                  /\ u.st = "run"
           /\ \A u \in tasks' \ tasks : NodeSet(u.slices) \subseteq sl
           /\ tasks \ {t} \subseteq tasks'

RECURSIVE NoFailureResult(_, _, _, _)
\* What mapReduce returns for call c over the slices sl when no node fails:
\* every slice is evaluated on its first replica.
NoFailureResult(c, sl, i, acc) ==
  IF i > Len(sl) THEN acc
  ELSE NoFailureResult(c, sl, i + 1,
         ReduceFn(c, acc, MapFn(bits[FirstCandidate(Nodes, sl[i])], c, sl[i]).val))

\* A mapReduce of the coordinator that lost a node returned what the run
\* without failure returns.
FailoverSameResult ==
  (~remote /\ MapReduceReturned /\ mr.nodes # Nodes)
  => /\ mr.maxSlice = Len(mr.slices)
     /\ mr.result = NoFailureResult(mr.call, mr.slices, 1, NilVal)

\* C3: when a remote node fails with a transport error and every slice it held
\* has another candidate replica, mapReduce dispatches exactly those slices
\* again, each to its first remaining replica in FragmentNodes order, and
\* returns the result of a run in which no node fails.
MapReduceFailover == [][FailoverStep]_vars /\ []FailoverSameResult

\* A coordinator's mapReduce returned a result after it had filtered out a node.
MapReduceFailoverWitness ==
  /\ ~remote /\ MapReduceReturned /\ mr.nodes # Nodes
  /\ \E e \in sent : e.req.to \notin {FirstCandidate(Nodes, e.req.slices[i]) :
                                       i \in 1 .. Len(e.req.slices)}

\* The data slice s is evaluated on: the local node's in a forwarded request,
\* else those of a replica (the replicas of a coordinator's run hold the same).
DataOf(s) == IF remote THEN bits[host] ELSE bits[FragmentNodes(s)[1]]

RECURSIVE SumPairs(_, _, _, _)
\* The sum over the slices of S of the count of row r in the slice's pairs,
\* D[s] being the data slice s is evaluated on.
SumPairs(D, c, S, r) ==
  IF S = {} THEN 0
  ELSE LET s == CHOOSE x \in S : TRUE
       IN  MapFn(D[s], c, s).val.pairs[r] + SumPairs(D, c, S \ {s}, r)

\* The value of call c over the set of slices S, stated without any order:
\* the union of the per-slice bitmaps, the number of columns of that union,
\* the per-row sums.  D[s]: the data slice s is evaluated on.
OrderFree(D, c, S) ==
  CASE c.name = "Count" ->
         CountVal(Cardinality(UNION {executeBitmapCallSlice(D[s], c.children[1], s).val.bits :
                                       s \in S}))
    [] c.name = "TopN" -> PairsVal([r \in RowIDs |-> SumPairs(D, c, S, r)])
    [] OTHER -> BitmapVal(UNION {MapFn(D[s], c, s).val.bits : s \in S})

\* C4: the reducers are order-independent: whatever the order in which the
\* per-slice values reach mapperLocal and the per-node values reach mapReduce,
\* the value returned is the one determined by the set of slices alone.
ReduceOrderIndependent ==
  /\ MapReduceReturned =>
       mr.result = OrderFree([s \in NodeSet(mr.slices) |-> DataOf(s)], mr.call,
                             NodeSet(mr.slices))
  /\ pc = "mr" =>
       \A t \in tasks :
         (t.node = host /\ t.st = "ready" /\ t.err = "")
         => t.res = OrderFree([s \in NodeSet(t.slices) |-> bits[host]], mr.call,
                              NodeSet(t.slices))

\* A coordinator's mapReduce over two slices held by two nodes returned a
\* non-empty result.
ReduceOrderIndependentWitness ==
  /\ ~remote /\ MapReduceReturned /\ Len(mr.slices) = 2 /\ mr.nodes = Nodes
  /\ mr.call.name = "Count" /\ mr.result.n = 2

\* C5: for SetBit and ClearBit on one view, the changed flag the view pass
\* returns is the OR of the changed flags of all replica updates performed in
\* the invocation (the local write and every forwarded response).
ChangedIsOrOfReplicas ==
  \A i \in 1 .. Len(bit.views) : bit.views[i].ret = bit.views[i].any

\* Call i of q is a SetBit/ClearBit that writes the standard view only.
StandardOnly(i) ==
  /\ q[i].name \in {"SetBit", "ClearBit"}
  /\ BitArgsError(q[i]) = ""
  /\ q[i].view = ViewStandard \/ (q[i].view = "" /\ ~InverseEnabled(q[i].frame))

ResultKind(c) ==
  CASE c.name \in {"SetBit", "ClearBit"} -> "bool"
    [] c.name \in {"SetRowAttrs", "SetColumnAttrs"} -> "nil"
    [] c.name = "Count" -> "count"
    [] c.name = "TopN" -> "pairs"
    [] OTHER -> "bitmap"

\* C7: Execute returns one result per call, in the order of the calls: the
\* i-th result is that of the i-th call.  The calls are run one after the
\* other, each result appended behind the earlier ones; the bulk path returns
\* one nil placeholder per call.
OneResultPerCall ==
  /\ (pc = "done" /\ err = "") =>
       /\ Len(results) = Len(q)
       /\ \A i \in 1 .. Len(q) : results[i].kind = ResultKind(q[i])
       /\ hasOnlySetRowAttrs(q) => \A i \in 1 .. Len(q) : results[i] = NilVal
       /\ ~hasOnlySetRowAttrs(q) => dispatched = [i \in 1 .. Len(q) |-> i]
  /\ pc \in {"loop", "mr", "bit", "attr"} /\ ~hasOnlySetRowAttrs(q) =>
       /\ Len(results) = ci - 1
       /\ \A i \in 1 .. Len(results) : results[i].kind = ResultKind(q[i])

\* A query of two calls whose results are of different kinds has returned.
OneResultPerCallWitness ==
  /\ pc = "done" /\ err = "" /\ Len(q) = 2
  /\ results[1].kind = "bool" /\ results[2].kind = "count"

\* C8: if the k-th call fails, Execute returns the error and no results (those
\* of the calls before k are dropped), and no call after k is dispatched:
\* nothing is handed to executeCall, sent or written for a later call.
ErrorAbortsQuery ==
  (pc = "done" /\ err # "") =>
    /\ results = <<>>
    /\ \A i \in 1 .. Len(dispatched) : dispatched[i] <= ci
    /\ \A e \in sent : e.req.ci <= ci
    /\ \A j \in 1 .. Len(writes) : writes[j].ci <= ci
    /\ ci <= Len(q)

\* The first call of two wrote, the second failed: Execute returned the error.
ErrorAbortsQueryWitness ==
  /\ pc = "done" /\ err # "" /\ ci = 2 /\ writes # <<>> /\ depth = 1

\* C9: mapReduce invoked with an empty slice set returns, with the reducer's
\* zero value: in its loop, the step that returns a value is possible.
EmptyMapReduceReturns ==
  (pc = "mr" /\ Len(mr.slices) = 0 /\ ~cancelled) => ENABLED Receive

\* The slices argument is the full range Execute enumerates for the calls of q:
\* the standard range, or the inverse range if every read call of q reads the
\* inverse view.
FullRangeGiven ==
  \/ argSlices = SliceRange(MaxSlice)
  \/ /\ argSlices = SliceRange(MaxInverseSlice)
     /\ \A i \in 1 .. Len(q) : IsMutation(q[i].name) \/ IsInverse(q[i])

\* C10: Execute(Q, S) with S the full slice range equals Execute(Q, {}), also
\* for queries with inverse calls: every call is run over the slices it is run
\* over when Execute enumerates them itself.
ExplicitFullRangeSameAsEnumerated ==
  (depth = 1 /\ ~remote /\ FullRangeGiven /\ needsSlices(q) /\ dispatched # <<>>
     /\ Len(dispatched) = ci /\ pc # "done")
  => slices = SlicesAtCall(q, <<>>, ci)

(***************************************************************************)
(* Per-slice evaluation of bitmap call trees against the evaluation of the *)
(* whole: a forwarded Execute of one call tree on node 1, which holds      *)
(* every slice of the model, over data drawn from EvalCells.               *)
(***************************************************************************)
EvalLeaves == {BitmapRow(0), BitmapRow(1), BitmapCol(0)}
EvalOps == {"Union", "Intersect", "Difference"}
EvalInner == {Nary("Union", <<BitmapRow(0), BitmapRow(1)>>),
              Nary("Difference", <<BitmapRow(1), BitmapCol(0)>>)}
\* The call trees: leaves, one operator over two leaves, Difference over three
\* leaves, and an operator with a nested operator on either side.
EvalTrees ==
  {BitmapRow(0), BitmapRow(1)}
  \cup {Nary(o, <<a, b>>) : o \in EvalOps, a \in EvalLeaves, b \in EvalLeaves}
  \cup {Nary("Difference", <<a, b, c>>) : a \in EvalLeaves, b \in EvalLeaves, c \in EvalLeaves}
  \cup {Nary(o, <<t, a>>) : o \in EvalOps, t \in EvalInner, a \in EvalLeaves}
  \cup {Nary(o, <<a, t>>) : o \in EvalOps, t \in EvalInner, a \in EvalLeaves}

\* The bits the data are drawn from: rows 0 and 1 of the standard view of "f"
\* over both slices, and row 0 of the inverse view.
EvalCells ==
  { Bit("f", ViewStandard, 0, 0), Bit("f", ViewStandard, 0, 2),
    Bit("f", ViewStandard, 1, 0), Bit("f", ViewStandard, 1, 2),
    Bit("f", ViewStandard, 1, 3),
    Bit("f", ViewInverse, 0, 0), Bit("f", ViewInverse, 0, 2) }

\* Node 1 is about to run Execute(<<tree>>, all slices) with Remote set.
InitEval ==
  /\ host = 1 /\ remote = TRUE /\ depth = 2
  /\ q \in {<<t>> : t \in EvalTrees}
  /\ argSlices = SliceRange(MaxSlice)
  /\ pc = "loop" /\ ci = 1
  /\ slices = SliceRange(MaxSlice) /\ inverseSlices = <<>>
  /\ results = <<>> /\ err = ""
  /\ dispatched = <<>>
  /\ \E B \in SUBSET EvalCells : bits = [n \in Nodes |-> B]
  /\ rowAttrs = [n \in Nodes |-> [id \in AttrIDs |-> NoAttrs]]
  /\ colAttrs = [n \in Nodes |-> [id \in ColIDs |-> NoAttrs]]
  /\ sent = {}
  /\ writes = <<>>
  /\ mr = NoMR /\ tasks = {} /\ cancelled = FALSE
  /\ bit = NoBit /\ attr = NoAttr

NextEval ==
  \/ Dispatch
  \/ LocalSliceDone
  \/ Receive

SpecEval == InitEval /\ [][NextEval]_vars

RECURSIVE EvalWhole(_, _)
RECURSIVE EvalFold(_, _, _, _)
\* The bitmap of call tree c over one fragment per view holding all the bits B
\* of the frame: a row is all the columns of the row, whatever their slice.
EvalWhole(B, c) ==
  CASE c.name = "Bitmap" ->
         IF c.col # None
         THEN {b[4] : b \in {x \in B : x[1] = c.frame /\ x[2] = ViewInverse /\ x[3] = c.col}}
         ELSE {b[4] : b \in {x \in B : x[1] = c.frame /\ x[2] = ViewStandard /\ x[3] = c.row}}
    [] OTHER -> EvalFold(B, c, 2, EvalWhole(B, c.children[1]))
\* The left fold of c's operator over the children i .. of c, onto acc.
EvalFold(B, c, i, acc) ==
  IF i > Len(c.children) THEN acc
  ELSE LET x == EvalWhole(B, c.children[i])
       IN  EvalFold(B, c, i + 1,
                    CASE c.name = "Union" -> acc \cup x
                      [] c.name = "Intersect" -> acc \cap x
                      [] OTHER -> acc \ x)

\* C11: for a call tree built from Bitmap, Union, Intersect and Difference
\* (Difference a left fold over its children in child order), the union over
\* the slices of the per-slice evaluations equals the evaluation of the tree
\* over a single fragment holding the bits of all the slices.
SlicewiseEqualsWhole ==
  /\ MapReduceReturned => mr.result.bits = EvalWhole(bits[host], q[1])
  /\ pc = "done" => err = "" /\ results[1].bits = EvalWhole(bits[host], q[1])

\* A Difference over three children, one of them of the inverse view, has been
\* evaluated over two slices to a non-empty bitmap that has bits of both.
SlicewiseEqualsWholeWitness ==
  /\ MapReduceReturned /\ pc = "done"
  /\ q[1].name = "Difference" /\ Len(q[1].children) = 3
  /\ \E i \in 1 .. 3 : q[1].children[i].col # None
  /\ \E x \in results[1].bits : SliceOf(x) = 0
  /\ \E x \in results[1].bits : SliceOf(x) = 1

\* The query is not empty and every call of it is SetRowAttrs.
OnlySetRowAttrs == Len(q) # 0 /\ \A i \in 1 .. Len(q) : q[i].name = "SetRowAttrs"

\* Execute is on the bulk path, or has been.
OnBulkPath ==
  \/ pc = "bulk"
  \/ attr.bulk
  \/ \E j \in 1 .. Len(writes) : writes[j].what = "bulkattrs"

LocalEvalErrorStep ==
  \A t \in tasks :
    ( /\ pc = "mr" /\ ~cancelled
      /\ t.node = host /\ t.st = "ready" /\ t.err \notin {"", ErrCanceled}
      /\ t \notin tasks' )
    => /\ pc' = "done" /\ err' = t.err
       /\ mr'.nodes = mr.nodes
       /\ tasks' \subseteq tasks
       /\ sent' = sent

\* C13: a per-slice evaluation error on the local node aborts the call:
\* mapReduce returns that error without removing the local node from the
\* candidate set and without dispatching the node's slices to other replicas.
LocalEvalErrorAbortsCall == [][LocalEvalErrorStep]_vars

\* The scheduling the termination of mapReduce rests on: a started map task
\* and a sent request return (LocalSliceDone, RemoteRespond), and the loop of
\* mapReduce takes a case of its select that is ready (Receive, CtxDone).
SpecLive ==
  /\ Spec
  /\ WF_vars(LocalSliceDone)
  /\ WF_vars(RemoteRespond)
  /\ WF_vars(Receive)
  /\ WF_vars(CtxDone)

\* mapReduce is in its loop, over a slice set that is not empty (TopN runs
\* mapReduce twice, one round after the other, over the same slices).
InMapReduce == pc = "mr" /\ Len(mr.slices) > 0

\* Within one mapReduce the candidate nodes never grow.
CandidatesStep ==
  (pc = "mr" /\ pc' = "mr" /\ mr'.phase = mr.phase) => mr'.nodes \subseteq mr.nodes

\* C14: for a non-empty slice set, if every map task and every remote request
\* eventually returns, mapReduce eventually returns a result or an error under
\* every interleaving; it returns a result exactly when the completed-slice
\* counter has reached len(slices); the re-planning rounds are bounded because
\* the candidate node set never grows.
MapReduceTerminates ==
  /\ InMapReduce ~> (pc # "mr")
  /\ [](InMapReduce => mr.maxSlice < Len(mr.slices))
  /\ [](MapReduceReturned => mr.maxSlice >= Len(mr.slices))
  /\ [][CandidatesStep]_vars

\* mapReduce has returned the error of a node after two rounds of re-planning.
MapReduceTerminatesWitness ==
  /\ pc = "done" /\ err = ErrTransport /\ ~remote
  /\ Len(mr.slices) > 0 /\ Cardinality(mr.nodes) = 1

\* Some slice of sl has no replica among nodes.
Unavailable(nodes, sl) ==
  \E i \in 1 .. Len(sl) : NodeSet(FragmentNodes(sl[i])) \cap nodes = {}

\* The first plan of the latest mapReduce: it fails exactly when a requested
\* slice has no replica among the candidates, the call then ends with
\* SliceUnavailable, no task was started and nothing was forwarded.
FirstPlanFails ==
  /\ (mr # NoMR /\ Unavailable(CandidateNodes(remote), mr.slices))
       => /\ pc = "done" /\ err = ErrSliceUnavailable
          /\ tasks = {} /\ sent = {}
          /\ mr.nodes = CandidateNodes(remote) /\ mr.maxSlice = 0
  /\ err = ErrSliceUnavailable
       => mr # NoMR /\ Unavailable(CandidateNodes(remote), mr.slices)

\* A plan after the error of task t that fails: mapReduce returns the error of
\* t, which is not SliceUnavailable, and starts and sends nothing.
ReplanFailsStep ==
  \A t \in tasks :
    ( /\ pc = "mr" /\ ~cancelled
      /\ t.st = "ready" /\ t.err # "" /\ t \notin tasks'
      /\ Unavailable(mr.nodes \ {t.node}, t.slices) )
    => /\ pc' = "done" /\ err' = t.err /\ err' # ErrSliceUnavailable
       /\ tasks' = tasks \ {t} /\ sent' = sent
       /\ mr'.nodes = mr.nodes \ {t.node}

\* C15: planning fails with SliceUnavailable as soon as some requested slice
\* has no replica in the candidate set (a remote worker asked for a slice it
\* does not own fails and forwards nothing); when the plan fails while
\* re-planning after a node error, mapReduce returns that node error, not
\* SliceUnavailable.
PlanningFailure == []FirstPlanFails /\ [][ReplanFailsStep]_vars

\* The coordinator has returned the error of a node after the last replica of
\* a slice failed.
PlanningFailureWitness ==
  /\ pc = "done" /\ ~remote /\ err \notin {"", ErrSliceUnavailable, ErrCanceled}
  /\ mr # NoMR /\ Len(mr.slices) > 0
  /\ \E i \in 1 .. Len(mr.slices) : NodeSet(FragmentNodes(mr.slices[i])) \cap mr.nodes = {}

RECURSIVE SumOver(_, _)
\* The sum of f over the set S of its domain.
SumOver(f, S) ==
  IF S = {} THEN 0
  ELSE LET s == CHOOSE x \in S : TRUE IN f[s] + SumOver(f, S \ {s})

\* The number of columns call Count(child) finds in slice s.
CountOfSlice(c, s) == MapFn(DataOf(s), c, s).val.n

\* C16: exactly-once reduction: the completed-slice counter always equals the
\* number of slices reduced so far and never exceeds len(slices); no slice is
\* reduced more often than it was requested; a Count accumulates each reduced
\* slice's value once; and when mapReduce returns a result every requested
\* slice has been reduced exactly once, under any interleaving, failures and
\* re-plans.
ExactlyOnceReduction ==
  mr # NoMR =>
    /\ mr.maxSlice = SumOver(mr.reduced, DOMAIN mr.reduced)
    /\ mr.maxSlice <= Len(mr.slices)
    /\ \A s \in DOMAIN mr.reduced : mr.reduced[s] <= Times(mr.slices, s)
    /\ (mr.call.name = "Count" /\ mr.maxSlice > 0) =>
         mr.result.n = SumOver([s \in DOMAIN mr.reduced |->
                                  mr.reduced[s] * CountOfSlice(mr.call, s)],
                               DOMAIN mr.reduced)
    /\ MapReduceReturned =>
         \A s \in DOMAIN mr.reduced :
           mr.reduced[s] = Times(mr.slices, s) /\ (s \in NodeSet(mr.slices) => mr.reduced[s] = 1)

\* A coordinator's Count over two slices returned 2 after a node had failed
\* and its slices had been planned again.
ExactlyOnceReductionWitness ==
  /\ ~remote /\ MapReduceReturned /\ Len(mr.slices) = 2 /\ mr.nodes # Nodes
  /\ mr.call.name = "Count" /\ mr.result.n = 2
  /\ mr.reduced = [s \in 0 .. MaxSlice |-> 1]

\* The tasks a step starts: new in tasks, running, with nothing done yet.
Started ==
  {u \in tasks' \ tasks :
     u.st = "run" /\ u.acc = NilVal
     /\ u.pend = (IF u.node = host THEN 1 .. Len(u.slices) ELSE {})}

\* The step stays within one mapReduce call.
SameMapReduce == pc = "mr" /\ pc' = "mr" /\ mr'.phase = mr.phase /\ mr'.call = mr.call

\* Within one mapReduce: the candidates only shrink; a step that starts tasks
\* is the receipt of one failed task t, whose node leaves the candidates; the
\* tasks started are on candidates that remain, cover the slices of t and no
\* other slice, and every other task is left as it is.
CandidatesShrinkStep ==
  SameMapReduce =>
    /\ mr'.nodes \subseteq mr.nodes
    /\ \A t \in tasks \ tasks' :
         (t.st = "ready" /\ t.err # "" /\ mr' # mr) =>
           /\ mr'.nodes = mr.nodes \ {t.node}
           /\ UNION {NodeSet(u.slices) : u \in Started} = NodeSet(t.slices)
    /\ Started # {} =>
         \E t \in tasks \ tasks' :
           /\ t.st = "ready" /\ t.err # ""
           /\ t.node \notin mr'.nodes
           /\ tasks' = (tasks \ {t}) \cup Started
           /\ \A u \in Started :
                /\ u.node \in mr'.nodes
                /\ NodeSet(u.slices) \subseteq NodeSet(t.slices)
                /\ u.slices # <<>>

\* No task runs for a slice twice at a time, and no task covers a slice that
\* has been reduced: the slices of in-flight and completed tasks are not
\* dispatched again.
NoSliceTwice ==
  pc = "mr" =>
    /\ \A t, u \in tasks :
         (t # u /\ t.err = "" /\ u.err = "") => NodeSet(t.slices) \cap NodeSet(u.slices) = {}
    /\ \A t \in tasks : \A s \in NodeSet(t.slices) : t.err = "" => mr.reduced[s] = 0

\* C17: within one mapReduce call the candidate node set only shrinks: the
\* node of a task that reported an error is removed and no task started in
\* that re-plan or a later one is assigned to it; only the slices of the
\* failed task are planned again, those of other in-flight or completed tasks
\* are not dispatched again.
CandidatesOnlyShrink == [][CandidatesShrinkStep]_vars /\ []NoSliceTwice

\* Two nodes have been removed and a task runs on the last candidate, next to
\* a value already reduced.
CandidatesOnlyShrinkWitness ==
  /\ pc = "mr" /\ ~cancelled /\ Cardinality(mr.nodes) = 1 /\ mr.maxSlice = 1
  /\ \E t \in tasks : t.st = "run" /\ t.node \in mr.nodes

\* C18: each top-level call that supports inverse orientation, in a query
\* whose slices the engine enumerated, is dispatched with the inverse slices
\* if it is inverse-oriented and with the standard slices if it is
\* standard-oriented, whatever the orientation of the calls before it.
SlicesFollowOrientation ==
  (dispatched # <<>> /\ Len(argSlices) = 0 /\ SupportsInverse(q[LastDispatched]))
  => slices = IF IsInverse(q[LastDispatched])
              THEN SliceRange(MaxInverseSlice)
              ELSE SliceRange(MaxSlice)

\* A step of a mapReduce whose caller has cancelled: if mapReduce returns in
\* it, it returns the context error to the call, which ends the query with
\* it; it does not return a result (to Execute, or to executeTopN, which
\* would start its second round).
CancelledReturnStep ==
  (pc = "mr" /\ cancelled /\ (pc' # "mr" \/ mr'.phase # mr.phase))
  => pc' = "done" /\ err' = ErrCanceled /\ results' = results

\* C19: if the caller's context is cancelled before mapReduce has completed
\* all slices, mapReduce returns the context error, never a result or a
\* partial accumulator, whatever responses are pending at that moment.
CancelReturnsContextError == [][CancelledReturnStep]_vars

\* The scheduling the end of the tasks rests on: a started map task and a
\* sent request return, a task whose select has a ready case takes one, and
\* the exec of an attribute task returns.
SpecNoLeak ==
  /\ Spec
  /\ WF_vars(LocalSliceDone)
  /\ WF_vars(RemoteRespond)
  /\ WF_vars(TaskExit)
  /\ WF_vars(AttrPeerDone)

\* mapReduce has returned and tasks it started are still there.
TasksLinger == pc # "mr" /\ tasks # {}

ReadsRow(c, fr, r) ==
  \/ c.name = "Bitmap" /\ c.frame = fr /\ c.row = r
  \/ c.name = "Union" /\ \E k \in 1 .. Len(c.children) :
       c.children[k].name = "Bitmap" /\ c.children[k].frame = fr /\ c.children[k].row = r

\* The calls are taken up one after the other in input order; what a call
\* wrote locally or sent carries an index no later call has, and a call that
\* has not been dispatched yet has written and sent nothing.
CallsInOrder ==
  (pc \notin {"idle", "bulk"} /\ ~hasOnlySetRowAttrs(q)) =>
    /\ dispatched = [k \in 1 .. Len(dispatched) |-> k]
    /\ err = "" => Len(results) <= Len(dispatched) /\ Len(dispatched) <= Len(results) + 1
    /\ \A k \in 1 .. Len(writes) : writes[k].ci \in 1 .. Len(dispatched)
    /\ \A k \in 1 .. (Len(writes) - 1) : writes[k].ci <= writes[k + 1].ci
    /\ \A e \in sent : e.req.ci \in 1 .. Len(dispatched)
    /\ pc \in {"mr", "bit", "attr"} => Len(dispatched) = Len(results) + 1 /\ ci = Len(dispatched)

\* Between two calls, and after the last one, nothing the calls returned so
\* far started is outstanding: no map task, no bit pass, no attribute task or
\* unread response.
NothingOutstanding ==
  ((pc = "loop" \/ (pc = "done" /\ err = "")) /\ ~hasOnlySetRowAttrs(q)) =>
    /\ tasks = {}
    /\ attr.pending = {} /\ attr.resp = <<>>
    /\ Len(results) = Len(dispatched)

\* A Bitmap or Union over row r that returned after a successful SetBit of
\* (r, c) earlier in the same client query, with engine-enumerated slices,
\* holds column c.
LaterCallSeesBit ==
  \A i, j \in 1 .. Len(results) :
    ( /\ ~remote /\ depth = 1 /\ Len(argSlices) = 0 /\ i < j
      /\ q[i].name = "SetBit" /\ q[i].view = ""
      /\ ReadsRow(q[j], q[i].frame, q[i].row) )
    => q[i].col \in results[j].bits

\* C21: top-level calls are evaluated strictly serially in input order: no
\* local write, map task or peer request of call i+1 starts before call i has
\* returned; when call i returned successfully none of its tasks or requests
\* is outstanding; so a later call of the query observes the effects of an
\* earlier successful mutation.
CallsStrictlySerial == CallsInOrder /\ NothingOutstanding /\ LaterCallSeesBit

(***************************************************************************)
(* executeSetBit / executeClearBit over their arguments.                   *)
(***************************************************************************)
\* The view arguments tried: none, the two views, and a name that is no view.
BitViews == {"", ViewStandard, ViewInverse, "bogus"}

\* The SetBit and ClearBit calls tried.
BitCalls ==
  {BitCall(name, fr, v, r, c) :
     name \in {"SetBit", "ClearBit"}, fr \in Frames, v \in BitViews,
     r \in RowIDs, c \in 0 .. 3}

\* Node host is about to run Execute(<<call>>, no slices), as coordinator or
\* on a forwarded request.
InitBit ==
  /\ host \in Nodes /\ remote \in BOOLEAN /\ depth = 1
  /\ q \in {<<c>> : c \in BitCalls}
  /\ argSlices = <<>>
  /\ pc = "loop" /\ ci = 1
  /\ slices = <<>> /\ inverseSlices = <<>>
  /\ results = <<>> /\ err = ""
  /\ dispatched = <<>>
  /\ bits = [n \in Nodes |-> InitBitsOf(n)]
  /\ rowAttrs = [n \in Nodes |-> [id \in AttrIDs |-> NoAttrs]]
  /\ colAttrs = [n \in Nodes |-> [id \in ColIDs |-> NoAttrs]]
  /\ sent = {}
  /\ writes = <<>>
  /\ mr = NoMR /\ tasks = {} /\ cancelled = FALSE
  /\ bit = NoBit /\ attr = NoAttr

NextBit ==
  \/ Dispatch
  \/ BitLocal
  \/ BitSkip
  \/ BitForward

SpecBit == InitBit /\ [][NextBit]_vars

\* The views call c writes, in order.
ViewsOf(c) ==
  CASE c.view = ViewStandard -> <<ViewStandard>>
    [] c.view = ViewInverse -> <<ViewInverse>>
    [] OTHER -> IF InverseEnabled(c.frame) THEN <<ViewStandard, ViewInverse>>
                ELSE <<ViewStandard>>

\* The bits node n holds after call c has succeeded: the standard bit
\* (row, col) on the replicas of the slice of col, the inverse bit (col, row)
\* on the replicas of the slice of row, set or cleared; a forwarded call
\* touches its own node only.
BitsAfter(c, n) ==
  LET reach == ~remote \/ n = host
      std == IF /\ ViewStandard \in NodeSet(ViewsOf(c)) /\ reach
                /\ n \in NodeSet(FragmentNodes(c.col \div SliceWidth))
             THEN {Bit(c.frame, ViewStandard, c.row, c.col)} ELSE {}
      inv == IF /\ ViewInverse \in NodeSet(ViewsOf(c)) /\ reach
                /\ n \in NodeSet(FragmentNodes(c.row \div SliceWidth))
             THEN {Bit(c.frame, ViewInverse, c.col, c.row)} ELSE {}
  IN  IF c.name = "SetBit" THEN InitBitsOf(n) \cup std \cup inv
      ELSE InitBitsOf(n) \ (std \cup inv)

\* C22: SetBit/ClearBit with view "" runs the standard pass (row, col, on the
\* replicas of slice col / SliceWidth) and then, iff the frame has inverse
\* storage, the inverse pass with the arguments transposed (replicas of slice
\* row / SliceWidth); the value returned is the OR of what the passes
\* returned; an error in the standard pass prevents the inverse pass; a view
\* other than "", standard or inverse is an error with no write.
BitViewPasses ==
  LET c == q[1]
      badView == c.view \notin {"", ViewStandard, ViewInverse}
  IN  /\ (pc = "done" /\ badView) =>
           /\ err # "" /\ results = <<>>
           /\ writes = <<>> /\ sent = {}
           /\ bits = [n \in Nodes |-> InitBitsOf(n)]
      /\ (pc = "done" /\ ~badView /\ err = "") =>
           /\ [k \in 1 .. Len(bit.views) |-> bit.views[k].view] = ViewsOf(c)
           /\ results[1].flag = (\E k \in 1 .. Len(bit.views) : bit.views[k].ret)
           /\ \A n \in Nodes : bits[n] = BitsAfter(c, n)
           /\ [k \in 1 .. Len(writes) |-> writes[k].what]
                = SelectSeq(ViewsOf(c), LAMBDA v :
                    host \in NodeSet(FragmentNodes(
                      (IF v = ViewStandard THEN c.col ELSE c.row) \div SliceWidth)))
      /\ (pc = "done" /\ ~badView /\ err # "" /\ bit.views = <<>>
            /\ ViewsOf(c)[1] = ViewStandard) =>
           /\ \A k \in 1 .. Len(writes) : writes[k].what # ViewInverse
           /\ \A e \in sent : e.req.to \in NodeSet(FragmentNodes(c.col \div SliceWidth))
           /\ results = <<>>

\* A coordinator's SetBit with view "" on the frame with inverse storage, for
\* a row and a column of different slices, has run both passes and changed a
\* bit.
BitViewPassesWitness ==
  /\ pc = "done" /\ err = "" /\ ~remote /\ q[1].name = "SetBit"
  /\ q[1].view = "" /\ InverseEnabled(q[1].frame)
  /\ q[1].row \div SliceWidth # q[1].col \div SliceWidth
  /\ Len(bit.views) = 2 /\ results[1].flag

\* The replicas of the view pass in progress, in Cluster.FragmentNodes order.
PassReplicas == FragmentNodes(bit.passes[1].colID \div SliceWidth)

\* Node n holds the update of call c for the view pass p.
Applied(n, c, p) ==
  LET b == Bit(c.frame, p.view, p.rowID, p.colID)
  IN  IF c.name = "SetBit" THEN b \in bits[n] ELSE b \notin bits[n]

\* One step of the loop over the replicas: it deals with the replica at
\* position k and with no other node, then moves to position k + 1 or to the
\* next view; when it fails, the call returns its error without a value and
\* nothing stored is changed.
ReplicaStep ==
  pc = "bit" =>
    LET n == PassReplicas[bit.k]
    IN  /\ \A m \in Nodes \ {n} : bits'[m] = bits[m]
        /\ \A e \in sent' \ sent : e.req.to = n /\ n # host
        /\ pc' = "bit" =>
             \/ bit'.k = bit.k + 1 /\ bit'.passes = bit.passes
             \/ /\ bit.k = Len(PassReplicas)
                /\ bit'.k = 1 /\ bit'.passes = Tail(bit.passes)
        /\ (pc' = "done" /\ err' # "") =>
             /\ bits' = bits /\ writes' = writes /\ bit' = bit
             /\ results' = <<>>

\* The state a failed replica update leaves: the views finished before and
\* the replicas before position k hold the update; while the first view is in
\* progress every other node is as it was and no request went to a replica
\* after k; nothing is enabled that would write or send more.
FailedUpdateLeaves ==
  (pc = "done" /\ err \in {ErrTransport, ErrStorage}) =>
    LET c == q[1]
        k == bit.k
        before == {PassReplicas[i] : i \in 1 .. (k - 1)}
        after == {PassReplicas[i] : i \in (k + 1) .. Len(PassReplicas)}
        reach(n) == ~remote \/ n = host
    IN  /\ results = <<>>
        /\ \A n \in before : reach(n) => Applied(n, c, bit.passes[1])
        /\ \A j \in 1 .. Len(bit.views) :
             \A n \in NodeSet(FragmentNodes(BitPasses(c)[j].colID \div SliceWidth)) :
               reach(n) => Applied(n, c, BitPasses(c)[j])
        /\ bit.views = <<>> =>
             /\ \A n \in Nodes \ before : bits[n] = InitBitsOf(n)
             /\ \A e \in sent : e.req.to \notin after
        /\ ~ENABLED (BitLocal \/ BitSkip \/ BitForward)

\* C23: bit mutations are not rolled back: the replicas are updated one after
\* the other in Cluster.FragmentNodes order; when the update of replica k
\* fails the call returns the error and no value, the replicas after k get no
\* write and no request, and the updates applied before stay applied.
NoRollback == [][ReplicaStep]_vars /\ []FailedUpdateLeaves

\* A coordinator's SetBit failed at the second replica of its first view
\* after the first replica, another node, had stored the new bit.
NoRollbackWitness ==
  /\ pc = "done" /\ err \in {ErrTransport, ErrStorage} /\ ~remote
  /\ q[1].name = "SetBit" /\ bit.views = <<>> /\ bit.k = 2
  /\ PassReplicas[1] # host
  /\ bits[PassReplicas[1]] # InitBitsOf(PassReplicas[1])

\* The single-call attribute path is waiting for its peers.
InAttrCall == pc = "attr" /\ ~attr.bulk

\* While the call waits: the local write is done, and the call has been sent
\* once to every other node and to no other, with Remote set; every peer is
\* still at work or has a response waiting or read.
AttrSentOnce ==
  InAttrCall =>
    LET c == q[ci]
        mine == {e \in sent : e.req.ci = ci /\ e.req.calls = <<c>>}
    IN  /\ ~remote
        /\ writes # <<>> /\ writes[Len(writes)].ci = ci /\ writes[Len(writes)].node = host
        /\ IF c.name = "SetRowAttrs"
           THEN rowAttrs[host][<<c.frame, c.row>>]
                  = MergeAttrs(rowAttrs[host][<<c.frame, c.row>>], c.attrs)
           ELSE colAttrs[host][c.col] = MergeAttrs(colAttrs[host][c.col], c.attrs)
        /\ {e.req.to : e \in mine} = Nodes \ {host}
        /\ \A e \in mine : e.cnt = 1 /\ e.req.remote /\ e.req.slices = <<>>
        /\ \A e, f \in mine : e.req.to = f.req.to => e = f
        /\ attr.pending \subseteq Nodes \ {host}
        /\ Cardinality(attr.pending) + Len(attr.resp) = attr.left
        /\ attr.left >= 1

\* The steps of the call: a failed validation or local write sends nothing
\* and writes nothing; a response read that is an error is returned at once;
\* nil is returned only with the last response, all of them without error.
AttrStep ==
  /\ ( /\ pc = "loop" /\ q[ci].name \in {"SetRowAttrs", "SetColumnAttrs"}
       /\ pc' = "done" /\ err' # "" )
     => /\ sent' = sent /\ writes' = writes /\ attr' = attr
        /\ rowAttrs' = rowAttrs /\ colAttrs' = colAttrs
  /\ (InAttrCall /\ attr'.left # attr.left) =>
       /\ attr.resp # <<>> /\ attr'.left = attr.left - 1
       /\ Head(attr.resp) # "" => pc' = "done" /\ err' = Head(attr.resp) /\ results' = <<>>
       /\ (Head(attr.resp) = "" /\ attr.left > 1) => pc' = "attr" /\ results' = results
       /\ (Head(attr.resp) = "" /\ attr.left = 1) =>
            /\ pc' \in {"loop", "done"} /\ err' = ""
            /\ results' = Append(results, NilVal)
            /\ attr'.pending = {} /\ attr'.resp = <<>>
  /\ (InAttrCall /\ pc' # "attr") => attr'.left # attr.left

\* C24: single-call SetRowAttrs/SetColumnAttrs on a coordinator writes the
\* attributes locally and then sends the same call exactly once to every
\* other node, never to itself; if the local write fails no request is sent;
\* the call returns the first error received, and nil only after all peers
\* have answered without error.
AttrFanOutOnce == []AttrSentOnce /\ [][AttrStep]_vars

\* A coordinator's SetColumnAttrs has returned nil and every node holds the
\* attribute.
AttrFanOutOnceWitness ==
  /\ ~remote /\ err = "" /\ pc \in {"loop", "done"}
  /\ \E i \in 1 .. Len(results) :
       /\ q[i].name = "SetColumnAttrs"
       /\ \A n \in Nodes : colAttrs[n][q[i].col] = MergeAttrs(NoAttrs, q[i].attrs)
  /\ \A n \in Nodes \ {host} : \E e \in sent : e.req.to = n /\ e.cnt = 1

(***************************************************************************)
(* executeBulkSetRowAttrs over its arguments.                              *)
(***************************************************************************)
\* The longest all-SetRowAttrs query tried.
MaxBulk == 2

\* The attribute arguments tried: one key, the same key with another value,
\* another key, two keys.
BulkAttrs ==
  { [NoAttrs EXCEPT !["k1"] = "v1"], [NoAttrs EXCEPT !["k1"] = "v2"],
    [NoAttrs EXCEPT !["k2"] = "v1"], [k1 |-> "v1", k2 |-> "v2"] }

\* The SetRowAttrs calls tried.
BulkCalls ==
  {[Call("SetRowAttrs") EXCEPT !.frame = fr, !.row = r, !.attrs = a] :
     fr \in Frames, r \in RowIDs, a \in BulkAttrs}

\* The row attributes node h holds at the start: none on node 0, k1 on the
\* rows of frame f on node 1, both keys on every row on node 2.
BulkStore(h) ==
  [id \in AttrIDs |->
     CASE h = 1 /\ id[1] = "f" -> [NoAttrs EXCEPT !["k1"] = "v2"]
       [] h = 2 -> [k1 |-> "v2", k2 |-> "v1"]
       [] OTHER -> NoAttrs]

\* Node host is about to run executeBulkSetRowAttrs on a query of SetRowAttrs
\* calls only, as coordinator or on a forwarded request.
InitBulk ==
  /\ host \in Nodes /\ remote \in BOOLEAN /\ depth = 1
  /\ q \in UNION {[1 .. k -> BulkCalls] : k \in 1 .. MaxBulk}
  /\ argSlices = <<>>
  /\ pc = "bulk" /\ ci = 1
  /\ slices = <<>> /\ inverseSlices = <<>>
  /\ results = <<>> /\ err = ""
  /\ dispatched = <<>>
  /\ bits = [n \in Nodes |-> InitBitsOf(n)]
  /\ rowAttrs = [n \in Nodes |-> BulkStore(n)]
  /\ colAttrs = [n \in Nodes |-> [id \in ColIDs |-> NoAttrs]]
  /\ sent = {}
  /\ writes = <<>>
  /\ mr = NoMR /\ tasks = {} /\ cancelled = FALSE
  /\ bit = NoBit /\ attr = NoAttr

NextBulk ==
  \/ BulkSetRowAttrs
  \/ AttrPeerDone
  \/ AttrReceive

SpecBulk == InitBulk /\ [][NextBulk]_vars

RECURSIVE OneByOne(_, _, _)
\* The row store R after calls i .. Len(calls), each run through the
\* single-call path, in input order.
OneByOne(R, calls, i) ==
  IF i > Len(calls) THEN R
  ELSE OneByOne(SetRowAttrs(R, calls[i]), calls, i + 1)

\* The value of key k for row id after the calls, the last call that names
\* it winning; what the row held before if no call names it.
LastWrite(old, calls, id, k) ==
  LET hits == {i \in 1 .. Len(calls) :
                 <<calls[i].frame, calls[i].row>> = id /\ calls[i].attrs[k] # NoVal}
  IN  IF hits = {} THEN old[id][k]
      ELSE calls[CHOOSE i \in hits : \A j \in hits : j <= i].attrs[k]

\* C25: for every all-SetRowAttrs query the bulk path leaves the local row
\* attribute store in the state the single-call path leaves when it runs the
\* same calls one by one in input order: per (frame, row) and key the last
\* write wins.
BulkEqualsOneByOne ==
  (pc # "bulk" /\ writes # <<>>) =>
    /\ rowAttrs[host] = OneByOne(BulkStore(host), q, 1)
    /\ \A id \in AttrIDs : \A k \in AttrKeys :
         rowAttrs[host][id][k] = LastWrite(BulkStore(host), q, id, k)

\* The bulk path has written two calls for one row that give one key two
\* values, over a store that held a third state of it.
BulkEqualsOneByOneWitness ==
  /\ pc # "bulk" /\ writes # <<>> /\ Len(q) = 2 /\ host = 1
  /\ q[1].frame = q[2].frame /\ q[1].row = q[2].row
  /\ q[1].attrs["k1"] = "v1" /\ q[2].attrs["k1"] = "v2" /\ q[1].attrs["k2"] = "v2"
  /\ rowAttrs[host][<<q[1].frame, q[1].row>>] = [k1 |-> "v2", k2 |-> "v2"]

(***************************************************************************)
(* executeTopN over its arguments: one TopN call, with or without ids, on  *)
(* a coordinator or on a worker, over data in which the rows differ in     *)
(* count, are equal in count, or are absent.                               *)
(***************************************************************************)
TopNCalls ==
  {[TopNCall(n) EXCEPT !.frame = fr, !.ids = ids] :
     n \in 0 .. 2, fr \in Frames, ids \in {<<>>, <<1>>, <<0, 1>>}}

\* The bits of the index: those of InitCells, those without bit (0, 3) of
\* frame f, so that row 1 outnumbers row 0, or none.
TopNData == {InitCells, InitCells \ {Bit("f", ViewStandard, 0, 3)}, {}}

InitTopN ==
  /\ host \in Nodes /\ remote \in BOOLEAN /\ depth = 1
  /\ q \in {<<c>> : c \in TopNCalls}
  /\ argSlices \in {<<>>, <<0>>, <<1>>, <<0, 1>>}
  /\ remote => /\ argSlices # <<>>
               /\ \A i \in 1 .. Len(argSlices) : host \in NodeSet(FragmentNodes(argSlices[i]))
  /\ ~remote => argSlices = <<>>
  /\ pc = "loop" /\ ci = 1
  /\ slices = EnumSlices(q, argSlices)
  /\ inverseSlices = EnumInverseSlices(q, argSlices)
  /\ results = <<>> /\ err = ""
  /\ dispatched = <<>>
  /\ \E D \in TopNData :
       bits = [n \in Nodes |-> {b \in D : n \in NodeSet(FragmentNodes(SliceOf(b[4])))}]
  /\ rowAttrs = [n \in Nodes |-> [id \in AttrIDs |-> NoAttrs]]
  /\ colAttrs = [n \in Nodes |-> [id \in ColIDs |-> NoAttrs]]
  /\ sent = {}
  /\ writes = <<>>
  /\ mr = NoMR /\ tasks = {} /\ cancelled = FALSE
  /\ bit = NoBit /\ attr = NoAttr

NextTopN ==
  \/ Dispatch
  \/ LocalSliceDone
  \/ RemoteRespond
  \/ Receive

SpecTopN == InitTopN /\ [][NextTopN]_vars

\* The pairs the first round of the TopN in hand yields: per row the sum of
\* the per-slice counts.
FirstRoundPairs ==
  OrderFree([s \in NodeSet(mr.slices) |-> DataOf(s)], mr.call, NodeSet(mr.slices)).pairs

\* A step of executeTopN after its first round: it starts the second round,
\* or it returns the pairs of the first.
TopNStep ==
  /\ (pc = "mr" /\ mr.phase = 1 /\ mr'.phase = 2)
     => /\ ~remote /\ Len(mr.call.ids) = 0 /\ PairKeys(FirstRoundPairs) # {}
        /\ mr'.call = [mr.call EXCEPT !.ids = mr'.call.ids]
        /\ mr'.slices = mr.slices
        /\ NodeSet(mr'.call.ids) = PairKeys(FirstRoundPairs)
        /\ \A i \in 1 .. Len(mr'.call.ids) : \A j \in 1 .. Len(mr'.call.ids) :
             i < j => mr'.call.ids[i] < mr'.call.ids[j]
        /\ \A e \in sent' \ sent : e.req.calls = <<mr'.call>>
  /\ (pc = "mr" /\ mr.phase = 1 /\ pc' # "mr" /\ err' = "")
     => /\ remote \/ Len(mr.call.ids) > 0 \/ PairKeys(mr'.result.pairs) = {}
        /\ mr'.result.pairs = FirstRoundPairs

\* C26: TopN runs its second round iff the executor is the coordinator, the
\* call has no ids and the first round returned at least one pair; the second
\* round runs a clone of the call whose ids are exactly the row IDs of the
\* first round in ascending order; a remote worker answers with one round.
TopNRefetch ==
  /\ [][TopNStep]_vars
  /\ [](remote => mr.phase # 2)
  /\ [](mr.phase = 2 => ~remote /\ Len(q[1].ids) = 0 /\ mr.call.ids # <<>>)

\* A coordinator's TopN without ids returned after a second round over rows
\* 0 and 1, of which row 1 had the higher count in the first round.
TopNRefetchWitness ==
  /\ ~remote /\ MapReduceReturned /\ mr.phase = 2
  /\ mr.call.ids = <<0, 1>>
  /\ results[1].pairs[1] > results[1].pairs[0]

\* The value the Bitmap call returned last carries the attributes the store
\* of the local node holds for its column or row.
CoordinatorAttaches ==
  (~remote /\ MapReduceReturned /\ mr.call.name = "Bitmap")
  => results[Len(results)] =
       AttachAttrs(mr.call, BitmapVal(mr.result.bits), rowAttrs[host], colAttrs[host])

\* What a worker running a forwarded Bitmap call answers carries no attributes.
WorkerAttachesNothing ==
  /\ (remote /\ MapReduceReturned /\ mr.call.name = "Bitmap")
     => results[Len(results)].attrs = NoAttrs
  /\ (pc = "mr" /\ mr.call.name = "Bitmap")
     => \A t \in tasks : (t.node # host /\ t.st = "ready" /\ t.err = "")
                         => t.res.attrs = NoAttrs

\* The per-slice values and what mapperLocal and mapReduce reduce them to
\* carry no attributes.
PerSliceAttributeFree ==
  /\ mr.result.attrs = NoAttrs
  /\ \A t \in tasks : t.acc.attrs = NoAttrs /\ (t.node = host => t.res.attrs = NoAttrs)

\* C27: for a Bitmap call the attributes are looked up and attached once per
\* client query, at the coordinator after the cross-node reduction; a worker
\* running the forwarded call with remote = true looks up no attributes, and
\* the per-slice results are attribute-free.
AttrsOnlyAtCoordinator ==
  CoordinatorAttaches /\ WorkerAttachesNothing /\ PerSliceAttributeFree


(***************************************************************************)
(* executeBitmapCall over its arguments: one Bitmap call by row or by      *)
(* column, on a coordinator or on a worker, over attribute stores that     *)
(* differ from node to node.                                               *)
(***************************************************************************)
AttachCalls ==
  {[BitmapRow(r) EXCEPT !.frame = fr] : r \in RowIDs, fr \in Frames}
  \cup {BitmapCol(c) : c \in 0 .. 1}

\* The column attributes node h holds at the start: none on node 0, k2 of
\* column 0 on the others.
AttachColStore(h) ==
  [c \in ColIDs |-> IF h # 0 /\ c = 0 THEN [NoAttrs EXCEPT !["k2"] = "v1"] ELSE NoAttrs]

InitAttach ==
  /\ host \in Nodes /\ remote \in BOOLEAN /\ depth = 1
  /\ q \in {<<c>> : c \in AttachCalls}
  /\ argSlices \in {<<>>, <<0>>, <<1>>, <<0, 1>>}
  /\ remote => /\ argSlices # <<>>
               /\ \A i \in 1 .. Len(argSlices) : host \in NodeSet(FragmentNodes(argSlices[i]))
  /\ ~remote => argSlices = <<>>
  /\ pc = "loop" /\ ci = 1
  /\ slices = EnumSlices(q, argSlices)
  /\ inverseSlices = EnumInverseSlices(q, argSlices)
  /\ results = <<>> /\ err = ""
  /\ dispatched = <<>>
  /\ bits = [n \in Nodes |-> InitBitsOf(n)]
  /\ rowAttrs = [n \in Nodes |-> BulkStore(n)]
  /\ colAttrs = [n \in Nodes |-> AttachColStore(n)]
  /\ sent = {}
  /\ writes = <<>>
  /\ mr = NoMR /\ tasks = {} /\ cancelled = FALSE
  /\ bit = NoBit /\ attr = NoAttr

NextAttach ==
  \/ Dispatch
  \/ LocalSliceDone
  \/ RemoteRespond
  \/ Receive

SpecAttach == InitAttach /\ [][NextAttach]_vars

(***************************************************************************)
(* executeBulkSetRowAttrs over calls that may be invalid: the frame absent *)
(* or unknown, the row absent.                                             *)
(***************************************************************************)
BulkArgCalls ==
  {[Call("SetRowAttrs") EXCEPT !.frame = fr, !.row = r, !.attrs = [NoAttrs EXCEPT !["k1"] = "v1"]] :
     fr \in Frames \cup {"", "x"}, r \in RowIDs \cup {None}}

InitBulkArgs ==
  /\ host \in Nodes /\ remote \in BOOLEAN /\ depth = 1
  /\ q \in UNION {[1 .. k -> BulkArgCalls] : k \in 1 .. MaxBulk}
  /\ argSlices = <<>>
  /\ pc = "bulk" /\ ci = 1
  /\ slices = <<>> /\ inverseSlices = <<>>
  /\ results = <<>> /\ err = ""
  /\ dispatched = <<>>
  /\ bits = [n \in Nodes |-> InitBitsOf(n)]
  /\ rowAttrs = [n \in Nodes |-> BulkStore(n)]
  /\ colAttrs = [n \in Nodes |-> [id \in ColIDs |-> NoAttrs]]
  /\ sent = {}
  /\ writes = <<>>
  /\ mr = NoMR /\ tasks = {} /\ cancelled = FALSE
  /\ bit = NoBit /\ attr = NoAttr

SpecBulkArgs == InitBulkArgs /\ [][NextBulk]_vars

\* Call c lacks a frame, names an unknown frame or lacks the row argument.
InvalidRowAttrs(c) == c.frame = "" \/ c.frame \notin Frames \/ c.row = None

\* C28: on the bulk SetRowAttrs path all calls are validated before any
\* write: if any call of the query lacks a frame, names an unknown frame or
\* lacks the row argument, Execute returns an error, no attribute store has
\* been written and no peer request has been sent.
BulkValidatedFirst ==
  (\E i \in 1 .. Len(q) : InvalidRowAttrs(q[i]))
  => /\ pc \in {"bulk", "done"}
     /\ pc = "done" => (err # "" /\ results = <<>>)
     /\ rowAttrs = [n \in Nodes |-> BulkStore(n)]
     /\ colAttrs = [n \in Nodes |-> [id \in ColIDs |-> NoAttrs]]
     /\ writes = <<>>
     /\ sent = {} /\ attr = NoAttr

\* A coordinator's query of a valid call followed by a call without row has
\* returned its error.
BulkValidatedFirstWitness ==
  /\ ~remote /\ pc = "done" /\ err # ""
  /\ Len(q) = 2 /\ ~InvalidRowAttrs(q[1]) /\ q[2].frame = "f" /\ q[2].row = None
  /\ rowAttrs[host] = BulkStore(host) /\ sent = {}
====
